---------------------------- MODULE Spec2Model ----------------------------
(***************************************************************************)
(* A model of the lexicon-driven signal-extraction pipeline of the Saudi   *)
(* financial intelligence platform: the rule-based Arabic sentiment        *)
(* analyser, the Saudi event detector, the Saudi entity extractor and the  *)
(* batch evaluator.                                                        *)
(*                                                                         *)
(* Representation.  A Python str is a sequence of Unicode code points      *)
(* (naturals), so that character rewriting, case mapping, the Arabic-range *)
(* test, \b word boundaries and the ordering used by sorted() are what     *)
(* they are in the program.  Every literal table is copied from the source *)
(* with the original text in the comment next to it.                       *)
(*                                                                         *)
(* Numbers.  Lexicon scores are kept in tenths (a weight 3 under the       *)
(* multiplier 1.4 is 42), ratios are exact fractions [num, den] and a      *)
(* value rounded to three decimals is an integer number of thousandths.    *)
(* Binary floating-point rounding error of the sums is not modelled.       *)
(***************************************************************************)
EXTENDS Integers, Sequences, FiniteSets, TLC

VARIABLES
  text,             \* the input str of the call under analysis
  pc,               \* position of the call: "start", a loop name, "done"
  sentiment,        \* the dict returned by predict_sentiment (NoResult before)
  negation_result,  \* [value |-> what check_negation returned] (NoResult before)
  detected_events,  \* detect_events: the dict under construction
  event_index,      \* detect_events: index of the category the loop is at
  doc_ents,         \* extract_entities: doc.ents, what spaCy recognised in text
  entities,         \* extract_entities: the EntityBag returned
  first_run,        \* the EntityBag of the first of two runs on the same text
  dataset_file,     \* analyze_dataset: what opening and parsing the file gives
  data,             \* analyze_dataset: the parsed list of items
  item_index,       \* analyze_dataset: 1-based position of the loop in data
  results,          \* analyze_dataset: the breakdown rows appended so far
  correct_predictions, \* analyze_dataset: the running count of agreements
  confusion,        \* analyze_dataset: confusion[actual][pred]
  report,           \* analyze_dataset: the dict returned (NoResult before)
  error,            \* the exception that ended the call, "" when none
  argument,         \* the value a component is called with (NoResult: none)
  processed_articles, \* API: the articles of the latest saudi_entities_ file
  company_name,     \* API: the path parameter of /saudi/sentiment/{company_name}
  normalized_query, \* API: normalize_entity_name(company_name)
  response,         \* API: what the endpoint answers (NoResult before)
  sentiment_articles, \* pipeline: the articles of the sentiment file
  event_results     \* pipeline: results of process_entity_results

vars == <<text, pc, sentiment, negation_result, detected_events, event_index,
          doc_ents, entities, first_run, dataset_file, data, item_index,
          results, correct_predictions, confusion, report, error, argument,
          processed_articles, company_name, normalized_query, response,
          sentiment_articles, event_results>>

sentimentVars == <<sentiment, negation_result>>
eventVars == <<detected_events, event_index>>
entityVars == <<doc_ents, entities, first_run>>
batchVars == <<dataset_file, data, item_index, results, correct_predictions,
               confusion, report, error>>

NoResult == [none |-> TRUE]

apiVars == <<processed_articles, company_name, normalized_query, response>>

\* The API at rest, in the runs that never call it.
ApiIdle ==
  /\ processed_articles = <<>> /\ company_name = <<>>
  /\ normalized_query = <<>> /\ response = NoResult

pipelineVars == <<sentiment_articles, event_results>>

\* The pipeline at rest, in the runs that never start it.
PipelineIdle == sentiment_articles = <<>> /\ event_results = <<>>

\* The batch evaluator at rest, in the runs that never call it.
BatchIdle ==
  /\ dataset_file = NoResult /\ data = <<>> /\ item_index = 0
  /\ results = <<>> /\ correct_predictions = 0 /\ confusion = NoResult
  /\ report = NoResult /\ error = ""

----------------------------------------------------------------------------
(* Generic helpers on sequences and code points.                           *)

Range(s) == {s[i] : i \in 1..Len(s)}

Min(a, b) == IF a < b THEN a ELSE b
Max(a, b) == IF a > b THEN a ELSE b

RECURSIVE SeqSum(_)
SeqSum(s) == IF s = <<>> THEN 0 ELSE Head(s) + SeqSum(Tail(s))

\* str.isspace() for the code points below U+0700.
IsSpace(c) == c \in {9, 10, 11, 12, 13, 28, 29, 30, 31, 32, 133, 160}

\* The class \w of Python's re for str patterns, for the code points of
\* ASCII and of the Arabic block (U+0600..U+06FF).
IsWordChar(c) ==
  \/ c \in 48..57 \/ c \in 65..90 \/ c = 95 \/ c \in 97..122
  \/ c \in 1568..1610 \/ c \in 1632..1641 \/ c \in 1646..1647
  \/ c \in 1649..1747 \/ c = 1749 \/ c \in 1765..1766
  \/ c \in 1774..1788 \/ c = 1791

\* s[p..p+Len(t)-1] = t  (1-based p)
OccursAt(t, s, p) ==
  /\ p >= 1
  /\ p + Len(t) - 1 <= Len(s)
  /\ \A k \in 1..Len(t) : s[p + k - 1] = t[k]

\* Python's   t in s   for two strs.
Contains(s, t) == \E p \in 1..(Len(s) - Len(t) + 1) : OccursAt(t, s, p)

\* str.split(): the maximal runs of non-whitespace characters, in order.
split(s) ==
  LET starts == {i \in 1..Len(s) : ~IsSpace(s[i]) /\ (i = 1 \/ IsSpace(s[i - 1]))}
      start_of(k) == CHOOSE i \in starts : Cardinality({j \in starts : j < i}) = k - 1
      end_of(i) == CHOOSE j \in i..Len(s) :
                     /\ \A m \in i..j : ~IsSpace(s[m])
                     /\ (j = Len(s) \/ IsSpace(s[j + 1]))
  IN  [k \in 1..Cardinality(starts) |-> SubSeq(s, start_of(k), end_of(start_of(k)))]

\* ' '.join(words)
RECURSIVE join(_)
join(words) ==
  IF words = <<>> THEN <<>>
  ELSE IF Len(words) = 1 THEN words[1]
  ELSE words[1] \o <<32>> \o join(Tail(words))

----------------------------------------------------------------------------
(* RuleBasedArabicSentimentAnalyzer.__init__: the static tables.           *)

financial_lexicon ==
  [ positive |-> <<
      [term |-> <<1571, 1585, 1576, 1575, 1581>>, weight |-> 3],  \* 'أرباح': 3
      [term |-> <<1585, 1576, 1581>>, weight |-> 3],  \* 'ربح': 3
      [term |-> <<1605, 1603, 1575, 1587, 1576>>, weight |-> 3],  \* 'مكاسب': 3
      [term |-> <<1606, 1605, 1608>>, weight |-> 3],  \* 'نمو': 3
      [term |-> <<1606, 1580, 1575, 1581>>, weight |-> 3],  \* 'نجاح': 3
      [term |-> <<1602, 1610, 1575, 1587, 1610, 1577>>, weight |-> 3],  \* 'قياسية': 3
      [term |-> <<1578, 1608, 1586, 1610, 1593, 1575, 1578>>, weight |-> 2],  \* 'توزيعات': 2
      [term |-> <<1575, 1586, 1583, 1607, 1575, 1585>>, weight |-> 3],  \* 'ازدهار': 3
      [term |-> <<1578, 1602, 1583, 1605>>, weight |-> 2],  \* 'تقدم': 2
      [term |-> <<1573, 1606, 1580, 1575, 1586>>, weight |-> 3],  \* 'إنجاز': 3
      [term |-> <<1601, 1575, 1574, 1590>>, weight |-> 2],  \* 'فائض': 2
      [term |-> <<1578, 1601, 1608, 1602>>, weight |-> 2],  \* 'تفوق': 2
      [term |-> <<1605, 1605, 1578, 1575, 1586>>, weight |-> 3],  \* 'ممتاز': 3
      [term |-> <<1575, 1606, 1578, 1593, 1575, 1588>>, weight |-> 3],  \* 'انتعاش': 3
      [term |-> <<1573, 1602, 1576, 1575, 1604, 32, 1603, 1576, 1610, 1585>>, weight |-> 3],  \* 'إقبال كبير': 3
      [term |-> <<1575, 1585, 1578, 1601, 1575, 1593>>, weight |-> 1],  \* 'ارتفاع': 1
      [term |-> <<1586, 1610, 1575, 1583, 1577>>, weight |-> 1],  \* 'زيادة': 1
      [term |-> <<1578, 1581, 1587, 1606>>, weight |-> 1],  \* 'تحسن': 1
      [term |-> <<1573, 1610, 1580, 1575, 1576, 1610>>, weight |-> 1],  \* 'إيجابي': 1
      [term |-> <<1602, 1608, 1610>>, weight |-> 1],  \* 'قوي': 1
      [term |-> <<1605, 1585, 1578, 1601, 1593>>, weight |-> 1],  \* 'مرتفع': 1
      [term |-> <<1578, 1608, 1587, 1593>>, weight |-> 1],  \* 'توسع': 1
      [term |-> <<1575, 1587, 1578, 1579, 1605, 1575, 1585>>, weight |-> 1],  \* 'استثمار': 1
      [term |-> <<1601, 1585, 1589>>, weight |-> 1],  \* 'فرص': 1
      [term |-> <<1578, 1591, 1608, 1585>>, weight |-> 1]  \* 'تطور': 1
    >>,
    negative |-> <<
      [term |-> <<1582, 1587, 1575, 1574, 1585>>, weight |-> 3],  \* 'خسائر': 3
      [term |-> <<1582, 1587, 1575, 1585, 1577>>, weight |-> 3],  \* 'خسارة': 3
      [term |-> <<1607, 1576, 1608, 1591>>, weight |-> 3],  \* 'هبوط': 3
      [term |-> <<1571, 1586, 1605, 1577>>, weight |-> 3],  \* 'أزمة': 3
      [term |-> <<1593, 1580, 1586>>, weight |-> 3],  \* 'عجز': 3
      [term |-> <<1585, 1603, 1608, 1583>>, weight |-> 3],  \* 'ركود': 3
      [term |-> <<1578, 1583, 1607, 1608, 1585>>, weight |-> 3],  \* 'تدهور': 3
      [term |-> <<1573, 1601, 1604, 1575, 1587>>, weight |-> 3],  \* 'إفلاس': 3
      [term |-> <<1575, 1606, 1607, 1610, 1575, 1585>>, weight |-> 3],  \* 'انهيار': 3
      [term |-> <<1601, 1588, 1604>>, weight |-> 3],  \* 'فشل': 3
      [term |-> <<1575, 1606, 1582, 1601, 1575, 1590>>, weight |-> 1],  \* 'انخفاض': 1
      [term |-> <<1578, 1585, 1575, 1580, 1593>>, weight |-> 1],  \* 'تراجع': 1
      [term |-> <<1605, 1582, 1575, 1591, 1585>>, weight |-> 1],  \* 'مخاطر': 1
      [term |-> <<1578, 1581, 1584, 1610, 1585>>, weight |-> 1],  \* 'تحذير': 1
      [term |-> <<1605, 1582, 1575, 1608, 1601>>, weight |-> 1],  \* 'مخاوف': 1
      [term |-> <<1578, 1581, 1583, 1610, 1575, 1578>>, weight |-> 1],  \* 'تحديات': 1
      [term |-> <<1590, 1593, 1601>>, weight |-> 1],  \* 'ضعف': 1
      [term |-> <<1587, 1604, 1576, 1610>>, weight |-> 1],  \* 'سلبي': 1
      [term |-> <<1575, 1606, 1603, 1605, 1575, 1588>>, weight |-> 2],  \* 'انكماش': 2
      [term |-> <<1578, 1576, 1575, 1591, 1572>>, weight |-> 2],  \* 'تباطؤ': 2
      [term |-> <<1605, 1588, 1575, 1603, 1604>>, weight |-> 1],  \* 'مشاكل': 1
      [term |-> <<1589, 1593, 1608, 1576, 1575, 1578>>, weight |-> 1],  \* 'صعوبات': 1
      [term |-> <<1602, 1604, 1602>>, weight |-> 1],  \* 'قلق': 1
      [term |-> <<1578, 1607, 1583, 1610, 1583>>, weight |-> 2],  \* 'تهديد': 2
      [term |-> <<1587, 1608, 1569>>, weight |-> 2]  \* 'سوء': 2
    >>,
    neutral |-> <<
      [term |-> <<1578, 1602, 1585, 1610, 1585>>, weight |-> 1],  \* 'تقرير': 1
      [term |-> <<1573, 1593, 1604, 1575, 1606>>, weight |-> 1],  \* 'إعلان': 1
      [term |-> <<1575, 1580, 1578, 1605, 1575, 1593>>, weight |-> 1],  \* 'اجتماع': 1
      [term |-> <<1605, 1606, 1575, 1602, 1588, 1577>>, weight |-> 1],  \* 'مناقشة': 1
      [term |-> <<1583, 1585, 1575, 1587, 1577>>, weight |-> 1],  \* 'دراسة': 1
      [term |-> <<1578, 1581, 1604, 1610, 1604>>, weight |-> 1],  \* 'تحليل': 1
      [term |-> <<1575, 1587, 1578, 1602, 1585, 1575, 1585>>, weight |-> 1],  \* 'استقرار': 1
      [term |-> <<1579, 1576, 1575, 1578>>, weight |-> 1],  \* 'ثبات': 1
      [term |-> <<1605, 1585, 1575, 1580, 1593, 1577>>, weight |-> 1],  \* 'مراجعة': 1
      [term |-> <<1578, 1602, 1610, 1610, 1605>>, weight |-> 1],  \* 'تقييم': 1
      [term |-> <<1576, 1610, 1575, 1606>>, weight |-> 1],  \* 'بيان': 1
      [term |-> <<1573, 1589, 1583, 1575, 1585>>, weight |-> 1],  \* 'إصدار': 1
      [term |-> <<1606, 1588, 1585>>, weight |-> 1],  \* 'نشر': 1
      [term |-> <<1593, 1585, 1590>>, weight |-> 1],  \* 'عرض': 1
      [term |-> <<1578, 1608, 1590, 1610, 1581>>, weight |-> 1]  \* 'توضيح': 1
    >> ]

islamic_terms ==
  [ positive |-> <<
      [term |-> <<1581, 1604, 1575, 1604>>, weight |-> 2],  \* 'حلال': 2
      [term |-> <<1605, 1578, 1608, 1575, 1601, 1602, 32, 1605, 1593, 32, 1575, 1604, 1588, 1585, 1610, 1593, 1577>>, weight |-> 3],  \* 'متوافق مع الشريعة': 3
      [term |-> <<1588, 1585, 1593, 1610>>, weight |-> 2],  \* 'شرعي': 2
      [term |-> <<1589, 1603, 1608, 1603, 32, 1606, 1575, 1580, 1581, 1577>>, weight |-> 3],  \* 'صكوك ناجحة': 3
      [term |-> <<1578, 1608, 1575, 1601, 1602, 32, 1588, 1585, 1593, 1610>>, weight |-> 2]  \* 'توافق شرعي': 2
    >>,
    negative |-> <<
      [term |-> <<1585, 1576, 1575>>, weight |-> 3],  \* 'ربا': 3
      [term |-> <<1581, 1585, 1575, 1605>>, weight |-> 3],  \* 'حرام': 3
      [term |-> <<1605, 1582, 1575, 1604, 1601, 32, 1604, 1604, 1588, 1585, 1610, 1593, 1577>>, weight |-> 3],  \* 'مخالف للشريعة': 3
      [term |-> <<1594, 1610, 1585, 32, 1588, 1585, 1593, 1610>>, weight |-> 3],  \* 'غير شرعي': 3
      [term |-> <<1605, 1581, 1592, 1608, 1585>>, weight |-> 2]  \* 'محظور': 2
    >>,
    neutral |-> <<
      [term |-> <<1588, 1585, 1610, 1593, 1577>>, weight |-> 1],  \* 'شريعة': 1
      [term |-> <<1601, 1578, 1608, 1609>>, weight |-> 1],  \* 'فتوى': 1
      [term |-> <<1607, 1610, 1574, 1577, 32, 1588, 1585, 1593, 1610, 1577>>, weight |-> 1],  \* 'هيئة شرعية': 1
      [term |-> <<1589, 1603, 1608, 1603>>, weight |-> 1],  \* 'صكوك': 1
      [term |-> <<1605, 1585, 1575, 1576, 1581, 1577>>, weight |-> 1],  \* 'مرابحة': 1
      [term |-> <<1605, 1590, 1575, 1585, 1576, 1577>>, weight |-> 1],  \* 'مضاربة': 1
      [term |-> <<1578, 1608, 1585, 1602>>, weight |-> 1]  \* 'تورق': 1
    >> ]

negation_words ==
  <<
    <<1604, 1575>>,  \* 'لا'
    <<1604, 1610, 1587>>,  \* 'ليس'
    <<1604, 1605>>,  \* 'لم'
    <<1604, 1606>>,  \* 'لن'
    <<1594, 1610, 1585>>,  \* 'غير'
    <<1593, 1583, 1605>>,  \* 'عدم'
    <<1583, 1608, 1606>>,  \* 'دون'
    <<1576, 1583, 1608, 1606>>,  \* 'بدون'
    <<1605, 1575>>  \* 'ما'
  >>

intensifiers ==
  <<
    [phrase |-> <<1580, 1583, 1575, 1611>>, multiplier |-> 15],  \* 'جداً': 1.5
    [phrase |-> <<1603, 1579, 1610, 1585, 1575, 1611>>, multiplier |-> 13],  \* 'كثيراً': 1.3
    [phrase |-> <<1604, 1604, 1594, 1575, 1610, 1577>>, multiplier |-> 15],  \* 'للغاية': 1.5
    [phrase |-> <<1578, 1605, 1575, 1605, 1575, 1611>>, multiplier |-> 14],  \* 'تماماً': 1.4
    [phrase |-> <<1576, 1588, 1603, 1604, 32, 1603, 1576, 1610, 1585>>, multiplier |-> 14],  \* 'بشكل كبير': 1.4
    [phrase |-> <<1576, 1588, 1583, 1577>>, multiplier |-> 14],  \* 'بشدة': 1.4
    [phrase |-> <<1580, 1583, 1575>>, multiplier |-> 15],  \* 'جدا': 1.5
    [phrase |-> <<1581, 1575, 1583>>, multiplier |-> 14]  \* 'حاد': 1.4
  >>

test_sentences ==
  <<
    <<1571, 1585, 1575, 1605, 1603, 1608, 32, 1578, 1581, 1602, 1602, 32, 1571, 1585, 1576, 1575, 1581, 1575, 1611, 32, 1602, 1610, 1575, 1587, 1610, 1577, 32, 1578, 1601, 1608, 1602, 32, 1575, 1604, 1578, 1608, 1602, 1593, 1575, 1578>>,
      \* "أرامكو تحقق أرباحاً قياسية تفوق التوقعات"
    <<1575, 1606, 1582, 1601, 1575, 1590, 32, 1581, 1575, 1583, 32, 1601, 1610, 32, 1571, 1587, 1593, 1575, 1585, 32, 1575, 1604, 1606, 1601, 1591, 32, 1610, 1579, 1610, 1585, 32, 1575, 1604, 1605, 1582, 1575, 1608, 1601>>,
      \* "انخفاض حاد في أسعار النفط يثير المخاوف"
    <<1575, 1604, 1576, 1606, 1603, 32, 1575, 1604, 1605, 1585, 1603, 1586, 1610, 32, 1610, 1589, 1583, 1585, 32, 1578, 1593, 1605, 1610, 1605, 1575, 1611, 32, 1580, 1583, 1610, 1583, 1575, 1611, 32, 1576, 1588, 1571, 1606, 32, 1605, 1578, 1591, 1604, 1576, 1575, 1578, 32, 1585, 1571, 1587, 32, 1575, 1604, 1605, 1575, 1604>>,
      \* "البنك المركزي يصدر تعميماً جديداً بشأن متطلبات رأس المال"
    <<1604, 1605, 32, 1578, 1581, 1602, 1602, 32, 1575, 1604, 1588, 1585, 1603, 1577, 32, 1571, 1585, 1576, 1575, 1581, 1575, 1611, 32, 1607, 1584, 1575, 32, 1575, 1604, 1585, 1576, 1593>>,
      \* "لم تحقق الشركة أرباحاً هذا الربع"
    <<1589, 1603, 1608, 1603, 32, 1605, 1578, 1608, 1575, 1601, 1602, 1577, 32, 1605, 1593, 32, 1575, 1604, 1588, 1585, 1610, 1593, 1577, 32, 1575, 1604, 1573, 1587, 1604, 1575, 1605, 1610, 1577>>
      \* "صكوك متوافقة مع الشريعة الإسلامية"
  >>

----------------------------------------------------------------------------
(* RuleBasedArabicSentimentAnalyzer: normalisation, negation, scoring.     *)

SentimentLabels == <<"positive", "negative", "neutral">>

\* re.sub('[إأآا]', 'ا', text); re.sub('ى', 'ي', text); re.sub('ة', 'ه', text)
NormalizeChar(c) ==
  LET c1 == IF c \in {1573, 1571, 1570, 1575} THEN 1575 ELSE c
      c2 == IF c1 = 1609 THEN 1610 ELSE c1
  IN  IF c2 = 1577 THEN 1607 ELSE c2

NormalizeChars(s) == [k \in 1..Len(s) |-> NormalizeChar(s[k])]

preprocess_text(t) == NormalizeChars(join(split(t)))

\* The window taken one token further, over the matched term itself.
check_negation_through_term(text_words, term_word_index, window) ==
  \E k \in (Max(0, term_word_index - window) + 1)..Min(term_word_index + 1, Len(text_words)) :
    text_words[k] \in Range(negation_words)

check_negation(text_words, term_word_index, window) ==
  LET start_index == Max(0, term_word_index - window)
      \* text_words[start_index:term_word_index], a 0-based slice
      words_before_term ==
        {text_words[k] : k \in (start_index + 1)..Min(term_word_index, Len(text_words))}
  IN  \E word \in words_before_term : word \in Range(negation_words)

\* The search without its \b anchors (a plain substring search).
IsWordBoundary_unanchored(s, p) == TRUE

\* \b at the gap before s[p] (p in 1..Len(s)+1): exactly one side is a \w.
IsWordBoundary(s, p) ==
  LET before == p > 1 /\ IsWordChar(s[p - 1])
      after  == p <= Len(s) /\ IsWordChar(s[p])
  IN  before # after

\* re.search(r'\b' + re.escape(term) + r'\b', s): match.start() + 1 of the
\* leftmost match, 0 when there is none.
regex_search_word(term, s) ==
  LET hits == {p \in 1..(Len(s) - Len(term) + 1) :
                 /\ IsWordBoundary(s, p)
                 /\ OccursAt(term, s, p)
                 /\ IsWordBoundary(s, p + Len(term))}
  IN  IF hits = {} THEN 0 ELSE CHOOSE p \in hits : \A q \in hits : p <= q

\* The intensifier loop: the multiplier (in tenths) of the first intensifier,
\* in table order, that is a substring of the processed text; 10 when none.
\* The multiplier of the last intensifier, in table order, that is a
\* substring of the processed text.
RECURSIVE intensifier_multiplier_last(_, _)
intensifier_multiplier_last(processed_text, k) ==
  IF k > Len(intensifiers) THEN 10
  ELSE IF intensifier_multiplier_last(processed_text, k + 1) # 10
    THEN intensifier_multiplier_last(processed_text, k + 1)
    ELSE IF Contains(processed_text, intensifiers[k].phrase)
      THEN intensifiers[k].multiplier
      ELSE 10

RECURSIVE intensifier_multiplier(_, _)
intensifier_multiplier(processed_text, k) ==
  IF k > Len(intensifiers) THEN 10
  ELSE IF Contains(processed_text, intensifiers[k].phrase)
    THEN intensifiers[k].multiplier
    ELSE intensifier_multiplier(processed_text, k + 1)

\* The scores are Python floats (IEEE doubles). A double x that is 0 or at
\* least 1 is held as [n, err] with  x * 10 * 2^52 = n * 2^52 + err : n is
\* the decimal value in tenths and err what the double differs from it, so
\* that rounding to nearest, ties to even, is computed on small integers.
Dbl(n, err) == [n |-> n, err |-> err]

RECURSIVE Pow2(_)
Pow2(k) == IF k = 0 THEN 1 ELSE 2 * Pow2(k - 1)

\* 2^k mod m
RECURSIVE Pow2Mod(_, _)
Pow2Mod(k, m) == IF k = 0 THEN 1 % m ELSE (2 * Pow2Mod(k - 1, m)) % m

\* The exponent e of the value: 2^e <= value < 2^(e+1), for a value >= 1.
RECURSIVE Binade(_, _, _)
Binade(n, err, e) ==
  IF n > 10 * Pow2(e + 1) \/ (n = 10 * Pow2(e + 1) /\ err >= 0)
    THEN Binade(n, err, e + 1)
    ELSE e

\* The double nearest to the exact value (n * 2^52 + err) / (10 * 2^52): the
\* doubles of binade e are g = 10 * 2^e apart in these units.
fl_round_in(n, err, e, g, a) ==
  LET r0 == Pow2(e) * a + err
      r == r0 % g
      t == (((((n % 20) * Pow2Mod(52 - e, 20)) % 20) - a) \div 10) % 2
      quotient_is_even == (t + (r0 - r) \div g) % 2 = 0
  IN  IF 2 * r < g THEN Dbl(n, err - r)
      ELSE IF 2 * r > g THEN Dbl(n, err + g - r)
      ELSE IF quotient_is_even THEN Dbl(n, err - r)
      ELSE Dbl(n, err + g - r)

fl_round_binade(n, err, e) ==
  fl_round_in(n, err, e, 10 * Pow2(e), ((n % 10) * Pow2Mod(52 - e, 10)) % 10)

fl_round(n, err) ==
  IF n = 0 THEN Dbl(0, 0) ELSE fl_round_binade(n, err, Binade(n, err, 0))

\* a + b on doubles
fl_add(a, b) == fl_round(a.n + b.n, a.err + b.err)

\* float(weight) * multiplier: an int times a double
fl_mul_int(w, m) == fl_round(w * m.n, w * m.err)

\* The double a multiplier literal of the intensifier table denotes: 1.3 is
\* stored 2 units above, 1.4 is stored 4 units below, 1.5 and 1.0 are exact.
literal_double(tenths) ==
  Dbl(tenths, CASE tenths = 13 -> 2 [] tenths = 14 -> -4 [] OTHER -> 0)

\* a < b on doubles
fl_less(a, b) == a.n < b.n \/ (a.n = b.n /\ a.err < b.err)

\* current_weight: float(weight), times the multiplier of the first
\* intensifier found when there is one.
current_weight_of(weight, multiplier) ==
  IF multiplier = 10 THEN Dbl(10 * weight, 0)
  ELSE fl_mul_int(weight, literal_double(multiplier))

\* scores[c] += current_weight, over the entries routed to c in firing order
RECURSIVE fl_accumulate(_, _, _)
fl_accumulate(acc, contributions, k) ==
  IF k > Len(contributions) THEN acc
  ELSE fl_accumulate(fl_add(acc, contributions[k].current_weight),
                     contributions, k + 1)

NOT_prefix == <<78, 79, 84, 32>>                                \* "NOT "
Islamic_prefix == <<91, 73, 115, 108, 97, 109, 105, 99, 93, 32>> \* "[Islamic] "

\* The nested loops over all_lexicons / sentiment / term, flattened in
\* iteration order (dicts iterate in insertion order).
all_lexicons ==
  << [lexicon_type |-> "financial", lexicon |-> financial_lexicon],
     [lexicon_type |-> "islamic",   lexicon |-> islamic_terms] >>

EntriesOf(lx) ==
  LET of(sent) == [k \in 1..Len(lx.lexicon[sent]) |->
                     [lexicon_type |-> lx.lexicon_type, sentiment |-> sent,
                      term |-> lx.lexicon[sent][k].term,
                      weight |-> lx.lexicon[sent][k].weight]]
  IN  of("positive") \o of("negative") \o of("neutral")

lexicon_entries == EntriesOf(all_lexicons[1]) \o EntriesOf(all_lexicons[2])

\* if negation_result: 'negative' if sentiment == 'positive' else 'positive'
negated_target(sent) == IF sent = "positive" THEN "negative" ELSE "positive"

\* The body of the innermost loop for one lexicon entry: what it adds, if the
\* entry fires ([fired |-> FALSE] when re.search finds nothing).
score_entry(e, processed_text, processed_words) ==
  LET start == regex_search_word(e.term, processed_text)
  IN  IF start = 0 THEN [fired |-> FALSE]
      ELSE
        LET term_word_index == Len(split(SubSeq(processed_text, 1, start - 1)))
            is_negated == check_negation(processed_words, term_word_index, 3)
            multiplier == intensifier_multiplier(processed_text, 1)
        IN  [fired |-> TRUE,
             target |-> IF is_negated THEN negated_target(e.sentiment) ELSE e.sentiment,
             weight |-> e.weight * multiplier,
             current_weight |-> current_weight_of(e.weight, multiplier),
             tag |-> IF is_negated THEN NOT_prefix \o e.term
                     ELSE IF e.lexicon_type = "islamic" THEN Islamic_prefix \o e.term
                     ELSE e.term]

\* The loop leaving a bucket after its first contribution.
contributions_first_only(steps, c) ==
  LET all == SelectSeq(steps, LAMBDA st : st.fired /\ st.target = c)
  IN  IF all = <<>> THEN <<>> ELSE <<all[1]>>

\* What the fired entries contribute to scores[c] and matched_terms[c], in
\* firing order.
contributions_to(steps, c) == SelectSeq(steps, LAMBDA st : st.fired /\ st.target = c)

\* The whole loop: every entry is tried, in order; scores[c] accumulates the
\* weights routed to c and matched_terms[c] the tags, in firing order.
\* scores[c] is the value in tenths and score_errors[c] what the float kept
\* in scores[c] differs from it.
calculate_sentiment_score(t) ==
  LET processed_text == preprocess_text(t)
      processed_words == split(processed_text)
      steps == [k \in 1..Len(lexicon_entries) |->
                  score_entry(lexicon_entries[k], processed_text, processed_words)]
      routed(c) == contributions_to(steps, c)
  IN  [scores |-> [c \in Range(SentimentLabels) |->
                     SeqSum([k \in 1..Len(routed(c)) |-> routed(c)[k].weight])],
       score_errors |-> [c \in Range(SentimentLabels) |->
                     fl_accumulate(Dbl(0, 0), routed(c), 1).err],
       matched_terms |-> [c \in Range(SentimentLabels) |->
                     [k \in 1..Len(routed(c)) |-> routed(c)[k].tag]]]

\* The last key, in insertion order, that carries the maximum.
max_key_last(scores) ==
  LET best == CHOOSE k \in 1..3 :
                /\ \A j \in 1..3 : ~fl_less(scores[SentimentLabels[k]], scores[SentimentLabels[j]])
                /\ \A j \in (k + 1)..3 : fl_less(scores[SentimentLabels[j]], scores[SentimentLabels[k]])
  IN  SentimentLabels[best]

\* max(scores, key=scores.get), scores holding doubles: the first key, in insertion order positive,
\* negative, neutral, that carries the maximum.
max_key(scores) ==
  LET best == CHOOSE k \in 1..3 :
                /\ \A j \in 1..3 : ~fl_less(scores[SentimentLabels[k]], scores[SentimentLabels[j]])
                /\ \A j \in 1..(k - 1) : fl_less(scores[SentimentLabels[j]], scores[SentimentLabels[k]])
  IN  SentimentLabels[best]

\* Fractions and rounding.
Frac(n, d) == [num |-> n, den |-> d]
FracGT(f, n, d) == f.num * d > n * f.den       \* f > n/d   (dens positive)
FracLE(f, n, d) == f.num * d <= n * f.den      \* f <= n/d
\* round(f, 3) in thousandths: nearest, an exact half going to the even side
round3(f) ==
  LET q == (f.num * 1000) \div f.den
      r == (f.num * 1000) % f.den
  IN  IF 2 * r > f.den THEN q + 1
      ELSE IF 2 * r < f.den THEN q
      ELSE IF q % 2 = 0 THEN q ELSE q + 1

\* The double x / t, kept as the fraction num / den of the decimal values
\* with what the two doubles differ from them.
fl_div(x, t) == [num |-> x.n, den |-> t.n, num_err |-> x.err, den_err |-> t.err]

\* The zero-match branch reporting no confidence at all.
default_confidence_zero == fl_div(Dbl(0, 0), Dbl(1, 0))

default_confidence == fl_div(Dbl(1, 0), Dbl(2, 0))     \* confidence_score = 0.5

\* The winning score itself (in tenths) returned as the confidence.
confidence_of_undivided(scores, total_score, final_sentiment) ==
  IF total_score.n = 0 THEN default_confidence
  ELSE fl_div(scores[final_sentiment], Dbl(10, 0))

confidence_of(scores, total_score, final_sentiment) ==
  IF total_score.n = 0 THEN default_confidence
  ELSE fl_div(scores[final_sentiment], total_score)

\* q > 0.75 for the double q nearest to x / t. 0.75 is a double, and the
\* doubles above it start 2^-53 higher: when the decimal values are in the
\* ratio 3 : 4 the quotient rounds above 0.75 iff 4 x - 3 t > t * 2^-52.
fl_gt_075(q) ==
  IF 4 * q.num # 3 * q.den THEN 4 * q.num > 3 * q.den
  ELSE \/ 4 * q.num_err - 3 * q.den_err > q.den
       \/ 4 * q.num_err - 3 * q.den_err = q.den /\ q.den_err < 0

\* q > 0.55: the literal 0.55 is the double 0.55 + 2^-54 / 5, and the
\* quotient rounds above it iff  x / t > 11/20 + (9/20) * 2^-52.
fl_gt_055(q) ==
  IF 20 * q.num # 11 * q.den THEN 20 * q.num > 11 * q.den
  ELSE \/ 20 * q.num_err - 11 * q.den_err > 9 * q.den
       \/ 20 * q.num_err - 11 * q.den_err = 9 * q.den /\ q.den_err < 0

confidence_level_of(confidence_score) ==
  IF fl_gt_075(confidence_score) THEN "high"
  ELSE IF fl_gt_055(confidence_score) THEN "medium"
  ELSE "low"

\* The floats of the scores dict.
score_doubles(r) ==
  [c \in Range(SentimentLabels) |-> Dbl(r.scores[c], r.score_errors[c])]

\* The dict predict_sentiment returns, from the values it has computed.
prediction_dict(r, final_sentiment, confidence_score) ==
  [label |-> final_sentiment,
   confidence_score |-> confidence_score,
   confidence |-> round3(confidence_score),
   scores |-> r.scores,
   score_errors |-> r.score_errors,
   matched_terms |-> r.matched_terms,
   confidence_level |-> confidence_level_of(confidence_score)]

\* final_sentiment and confidence_score, from the scores and their total
prediction_labelled(r, total_score, final_sentiment) ==
  prediction_dict(r, final_sentiment,
                    confidence_of(score_doubles(r), total_score, final_sentiment))

prediction_from_total(r, total_score) ==
  prediction_labelled(r, total_score,
                      IF total_score.n = 0 THEN "neutral"
                      ELSE max_key(score_doubles(r)))

\* total_score = sum(scores.values())
fl_total(scores) ==
  fl_add(fl_add(scores["positive"], scores["negative"]), scores["neutral"])

prediction_scored(r) == prediction_from_total(r, fl_total(score_doubles(r)))

predict_sentiment(t) == prediction_scored(calculate_sentiment_score(t))

----------------------------------------------------------------------------
(* The sentiment analyser applied to one text.                             *)

MaxWords == 3

\* Words the bounded inputs are built from.
W_lm     == <<1604, 1605>>                       \* 'لم'   negation word
W_ghyr   == <<1594, 1610, 1585>>                 \* 'غير'  negation word
W_nmw    == <<1606, 1605, 1608>>                 \* 'نمو'  positive, weight 3
W_arbah  == <<1571, 1585, 1576, 1575, 1581>>     \* 'أرباح' positive, weight 3
W_khsair == <<1582, 1587, 1575, 1574, 1585>>     \* 'خسائر' negative, weight 3
W_tqryr  == <<1578, 1602, 1585, 1610, 1585>>     \* 'تقرير' neutral, weight 1
W_shry   == <<1588, 1585, 1593, 1610>>           \* 'شرعي' Islamic positive, weight 2
W_had    == <<1581, 1575, 1583>>                 \* 'حاد'  intensifier 1.4
W_shrkh  == <<1575, 1604, 1588, 1585, 1603, 1577>> \* 'الشركة' in no table

SentimentVocabulary ==
  {W_lm, W_ghyr, W_nmw, W_arbah, W_khsair, W_tqryr, W_shry, W_had, W_shrkh}

RECURSIVE WordSeqs(_, _)
WordSeqs(V, n) ==
  IF n = 0 THEN {<<>>}
  ELSE LET shorter == WordSeqs(V, n - 1)
       IN  shorter \cup {Append(ws, w) : ws \in {x \in shorter : Len(x) = n - 1}, w \in V}

\* Whitespace put between two words of an input: a space, or a tab and a space.
Separators == {<<32>>, <<9, 32>>}

RECURSIVE join_with(_, _)
join_with(words, sep) ==
  IF words = <<>> THEN <<>>
  ELSE IF Len(words) = 1 THEN words[1]
  ELSE words[1] \o sep \o join_with(Tail(words), sep)

\* Further sentences scored, beside the word sequences.
boundary_sentences ==
  <<
    \* the winning score is exactly three quarters of the total (weights
    \* 3 + 3 + 2 + 1 against 3), alone and with an intensifier 1.4 and 1.3
    <<1585, 1576, 1581, 32, 1606, 1605, 1608, 32, 1578, 1602, 1583, 1605, 32, 1602, 1608, 1610, 32, 1593, 1580, 1586>>,
    <<1585, 1576, 1581, 32, 1606, 1605, 1608, 32, 1578, 1602, 1583, 1605, 32, 1602, 1608, 1610, 32, 1593, 1580, 1586, 32, 1581, 1575, 1583>>,
    <<1585, 1576, 1581, 32, 1606, 1605, 1608, 32, 1578, 1602, 1583, 1605, 32, 1602, 1608, 1610, 32, 1593, 1580, 1586, 32, 1603, 1579, 1610, 1585, 1575, 1611>>,
    \* more than one intensifier of the table
    <<1606, 1605, 1608, 32, 1580, 1583, 1575, 32, 1581, 1575, 1583>>,
    <<1606, 1605, 1608, 32, 1603, 1579, 1610, 1585, 1575, 1611, 32, 1581, 1575, 1583, 32, 1582, 1587, 1575, 1574, 1585>>,
    <<1606, 1605, 1608, 32, 1604, 1604, 1594, 1575, 1610, 1577, 32, 1581, 1575, 1583>>,
    \* a tie of negative and neutral
    <<1590, 1593, 1601, 32, 1578, 1602, 1585, 1610, 1585>>,
    \* a negation word three tokens before a term that stands in parentheses,
    \* or without them; a term twice, negated at its second occurrence only
    <<1604, 1605, 32, 1578, 1581, 1602, 1602, 32, 1575, 1604, 1588, 1585, 1603, 1577, 32, 40, 1606, 1605, 1608, 41>>,
    <<1604, 1605, 32, 1578, 1581, 1602, 1602, 32, 1575, 1604, 1588, 1585, 1603, 1577, 32, 1606, 1605, 1608>>,
    <<1606, 1605, 1608, 32, 1575, 1604, 1588, 1585, 1603, 1577, 32, 1604, 1605, 32, 1606, 1605, 1608>>
  >>

SentimentInputs ==
  {join_with(ws, sep) : ws \in WordSeqs(SentimentVocabulary, MaxWords), sep \in Separators}
    \cup Range(test_sentences) \cup Range(boundary_sentences)

InitSentiment ==
  /\ text \in SentimentInputs
  /\ pc = "start"
  /\ sentiment = NoResult /\ negation_result = NoResult
  /\ detected_events = NoResult
  /\ event_index = 0
  /\ doc_ents = <<>> /\ entities = NoResult /\ first_run = NoResult
  /\ BatchIdle /\ argument = NoResult
  /\ ApiIdle /\ PipelineIdle

PredictSentiment ==
  /\ pc = "start"
  /\ sentiment' = predict_sentiment(text)
  /\ pc' = "done"
  /\ UNCHANGED <<text, negation_result, eventVars, entityVars, batchVars, argument, apiVars, pipelineVars>>

NextSentiment == PredictSentiment

SpecSentiment == InitSentiment /\ [][NextSentiment]_vars


----------------------------------------------------------------------------
(* Properties of predict_sentiment.                                        *)

\* The lexicon entry e occurs in the text t as a whole word of the processed
\* text (what the scorer's regular expression looks for).
Fires(e, t) ==
  LET s == preprocess_text(t)
  IN  \E p \in 1..Len(s) :
        IsWordBoundary(s, p) /\ OccursAt(e.term, s, p) /\ IsWordBoundary(s, p + Len(e.term))

NoEntryFires(t) == \A k \in 1..Len(lexicon_entries) : ~Fires(lexicon_entries[k], t)

\* C1: for every input text in which no lexicon entry (financial or Islamic)
\* matches, predict_sentiment returns label 'neutral' with confidence exactly
\* 0.5 (the ratio itself and the rounded value reported).
C1_ZeroMatchIsNeutralHalf ==
  (pc = "done" /\ NoEntryFires(text)) =>
    /\ sentiment.label = "neutral"
    /\ sentiment.confidence_score.num * 2 = sentiment.confidence_score.den
    /\ sentiment.confidence = 500

\* A non-empty text without any match has been scored.
C1_Witness == pc = "done" /\ text # <<>> /\ NoEntryFires(text)

\* The term, written as in the lexicon, stands in the text as whole
\* whitespace-separated tokens starting at token i.
TermAtToken(tokens, term, i) ==
  LET tt == split(term)
  IN  /\ i + Len(tt) - 1 <= Len(tokens)
      /\ \A k \in 1..Len(tt) : tokens[i + k - 1] = tt[k]

\* A negation word is one of the (at most three) tokens right before token i.
NegationInWindow(tokens, i) ==
  \E j \in Max(1, i - 3)..(i - 1) : tokens[j] \in Range(negation_words)

\* The entry's term is a whole word of the text when term and text are both
\* read under the normaliser's character unification.
OccursNormalized(e, t) ==
  LET s == preprocess_text(t)
      n == NormalizeChars(e.term)
  IN  \E p \in 1..Len(s) :
        IsWordBoundary(s, p) /\ OccursAt(n, s, p) /\ IsWordBoundary(s, p + Len(n))

PositiveEntryIndices == {k \in 1..Len(lexicon_entries) : lexicon_entries[k].sentiment = "positive"}

\* The case of C2 for the positive entry k: a negation word within the window
\* before the term, and no other lexicon entry in the text.
NegatedPositiveOnly(t, k) ==
  /\ \E i \in 1..Len(split(t)) :
        TermAtToken(split(t), lexicon_entries[k].term, i) /\ NegationInWindow(split(t), i)
  /\ \A m \in 1..Len(lexicon_entries) : m # k => ~OccursNormalized(lexicon_entries[m], t)

\* C2: a text with a negation word within the 3-token window immediately
\* before a positive-lexicon term, and no other lexicon match, is labelled
\* 'negative' and matched_terms['negative'] contains 'NOT <term>'.
C2_NegatedPositiveIsNegative ==
  pc = "done" =>
    \A k \in PositiveEntryIndices :
      NegatedPositiveOnly(text, k) =>
        /\ sentiment.label = "negative"
        /\ (NOT_prefix \o lexicon_entries[k].term) \in Range(sentiment.matched_terms["negative"])

HasPrefix(s, p) == Len(s) >= Len(p) /\ SubSeq(s, 1, Len(p)) = p

\* C3: predict_sentiment on test_sentences[4] ("lam tuhaqqiq ... arbahan ...",
\* the negation test case) returns 'negative' and at least one matched term
\* is tagged as negated.
C3_NegationSentenceIsNegative ==
  (pc = "done" /\ text = test_sentences[4]) =>
    /\ sentiment.label = "negative"
    /\ \E c \in Range(SentimentLabels) :
         \E tag \in Range(sentiment.matched_terms[c]) : HasPrefix(tag, NOT_prefix)

\* C4: predict_sentiment on test_sentences[1] (the record-profits headline)
\* returns 'positive' with confidence above 0.75 and confidence tier 'high'.
C4_RecordProfitsIsPositiveHigh ==
  (pc = "done" /\ text = test_sentences[1]) =>
    /\ sentiment.label = "positive"
    /\ FracGT(sentiment.confidence_score, 75, 100)
    /\ sentiment.confidence > 750
    /\ sentiment.confidence_level = "high"

C4_Witness ==
  pc = "done" /\ text = test_sentences[1] /\ sentiment.scores["positive"] > 0


----------------------------------------------------------------------------
(* SaudiEventDetector.__init__: the static tables.                         *)

generic_events ==
  <<
    [event_type |-> "merger", keywords |-> <<
         <<109, 101, 114, 103, 101>>,  \* 'merge'
         <<97, 99, 113, 117, 105, 115, 105, 116, 105, 111, 110>>,  \* 'acquisition'
         <<97, 99, 113, 117, 105, 114, 101>>,  \* 'acquire'
         <<116, 97, 107, 101, 111, 118, 101, 114>>  \* 'takeover'
      >>],
    [event_type |-> "ipo", keywords |-> <<
         <<105, 112, 111>>,  \* 'ipo'
         <<105, 110, 105, 116, 105, 97, 108, 32, 112, 117, 98, 108, 105, 99, 32, 111, 102, 102, 101, 114, 105, 110, 103>>,  \* 'initial public offering'
         <<103, 111, 105, 110, 103, 32, 112, 117, 98, 108, 105, 99>>  \* 'going public'
      >>],
    [event_type |-> "earnings", keywords |-> <<
         <<101, 97, 114, 110, 105, 110, 103, 115>>,  \* 'earnings'
         <<112, 114, 111, 102, 105, 116>>,  \* 'profit'
         <<108, 111, 115, 115>>,  \* 'loss'
         <<114, 101, 118, 101, 110, 117, 101>>  \* 'revenue'
      >>],
    [event_type |-> "regulatory", keywords |-> <<
         <<102, 105, 110, 101>>,  \* 'fine'
         <<112, 101, 110, 97, 108, 116, 121>>,  \* 'penalty'
         <<99, 111, 109, 112, 108, 105, 97, 110, 99, 101>>,  \* 'compliance'
         <<118, 105, 111, 108, 97, 116, 105, 111, 110>>  \* 'violation'
      >>]
  >>

saudi_events ==
  <<
    [event_type |-> "sukuk_issuance", keywords |-> <<
         <<115, 117, 107, 117, 107>>,  \* 'sukuk'
         <<105, 115, 108, 97, 109, 105, 99, 32, 98, 111, 110, 100>>,  \* 'islamic bond'
         <<1589, 1603, 1608, 1603>>  \* 'صكوك'
      >>],
    [event_type |-> "sharia_ruling", keywords |-> <<
         <<115, 104, 97, 114, 105, 97>>,  \* 'sharia'
         <<102, 97, 116, 119, 97>>,  \* 'fatwa'
         <<104, 97, 108, 97, 108>>,  \* 'halal'
         <<1588, 1585, 1610, 1593, 1577>>,  \* 'شريعة'
         <<1601, 1578, 1608, 1609>>  \* 'فتوى'
      >>],
    [event_type |-> "vision_2030", keywords |-> <<
         <<118, 105, 115, 105, 111, 110, 32, 50, 48, 51, 48>>,  \* 'vision 2030'
         <<110, 101, 111, 109>>,  \* 'neom'
         <<114, 101, 100, 32, 115, 101, 97, 32, 112, 114, 111, 106, 101, 99, 116>>,  \* 'red sea project'
         <<1585, 1572, 1610, 1577, 32, 1634, 1632, 1635, 1632>>  \* 'رؤية ٢٠٣٠'
      >>],
    [event_type |-> "oil_update", keywords |-> <<
         <<111, 112, 101, 99>>,  \* 'opec'
         <<111, 105, 108, 32, 112, 114, 105, 99, 101>>,  \* 'oil price'
         <<99, 114, 117, 100, 101>>,  \* 'crude'
         <<98, 97, 114, 114, 101, 108>>  \* 'barrel'
      >>],
    [event_type |-> "saudi_regulation", keywords |-> <<
         <<115, 97, 109, 97>>,  \* 'sama'
         <<99, 109, 97>>,  \* 'cma'
         <<116, 97, 100, 97, 119, 117, 108, 32, 114, 117, 108, 101>>,  \* 'tadawul rule'
         <<1607, 1610, 1574, 1577, 32, 1575, 1604, 1587, 1608, 1602>>  \* 'هيئة السوق'
      >>],
    [event_type |-> "giga_projects", keywords |-> <<
         <<113, 105, 100, 100, 105, 121, 97>>,  \* 'qiddiya'
         <<116, 104, 101, 32, 108, 105, 110, 101>>,  \* 'the line'
         <<111, 120, 97, 103, 111, 110>>,  \* 'oxagon'
         <<116, 114, 111, 106, 101, 110, 97>>,  \* 'trojena'
         <<115, 105, 110, 100, 97, 108, 97>>,  \* 'sindala'
         <<1575, 1604, 1602, 1583, 1610, 1577>>,  \* 'القدية'
         <<1584, 1575, 32, 1604, 1575, 1610, 1606>>,  \* 'ذا لاين'
         <<1571, 1608, 1603, 1587, 1575, 1580, 1608, 1606>>,  \* 'أوكساجون'
         <<1578, 1585, 1608, 1580, 1610, 1606, 1575>>,  \* 'تروجينا'
         <<1587, 1606, 1583, 1575, 1604, 1577>>,  \* 'سندالة'
         <<110, 101, 111, 109, 32, 98, 97, 121>>,  \* 'neom bay'
         <<97, 109, 97, 97, 108, 97>>,  \* 'amaala'
         <<100, 105, 114, 105, 121, 97, 104, 32, 103, 97, 116, 101>>,  \* 'diriyah gate'
         <<114, 111, 115, 104, 110>>  \* 'roshn'
      >>],
    [event_type |-> "interest_rates", keywords |-> <<
         <<1587, 1593, 1585, 32, 1575, 1604, 1601, 1575, 1574, 1583, 1577>>,  \* 'سعر الفائدة'
         <<114, 101, 112, 111, 32, 114, 97, 116, 101>>,  \* 'repo rate'
         <<115, 97, 109, 97, 32, 114, 97, 116, 101, 32, 100, 101, 99, 105, 115, 105, 111, 110>>,  \* 'sama rate decision'
         <<114, 101, 118, 101, 114, 115, 101, 32, 114, 101, 112, 111>>,  \* 'reverse repo'
         <<1605, 1593, 1583, 1604, 32, 1575, 1604, 1585, 1610, 1576, 1608>>,  \* 'معدل الريبو'
         <<1602, 1585, 1575, 1585, 32, 1587, 1575, 1605, 1575>>  \* 'قرار ساما'
      >>]
  >>

islamic_alerts ==
  <<
    [event_type |-> "riba_concern", keywords |-> <<
         <<114, 105, 98, 97>>,  \* 'riba'
         <<105, 110, 116, 101, 114, 101, 115, 116, 32, 114, 97, 116, 101>>,  \* 'interest rate'
         <<1585, 1576, 1575>>  \* 'ربا'
      >>],
    [event_type |-> "zakat_announcement", keywords |-> <<
         <<122, 97, 107, 97, 116>>,  \* 'zakat'
         <<1586, 1603, 1575, 1577>>  \* 'زكاة'
      >>],
    [event_type |-> "shariah_compliance", keywords |-> <<
         <<115, 104, 97, 114, 105, 97, 104, 32, 99, 111, 109, 112, 108, 105, 97, 110, 116>>,  \* 'shariah compliant'
         <<115, 104, 97, 114, 105, 97, 104, 32, 98, 111, 97, 114, 100>>,  \* 'shariah board'
         <<1605, 1578, 1608, 1575, 1601, 1602, 32, 1605, 1593, 32, 1575, 1604, 1588, 1585, 1610, 1593, 1577>>  \* 'متوافق مع الشريعة'
      >>],
    [event_type |-> "sukuk_default", keywords |-> <<
         <<115, 117, 107, 117, 107, 32, 100, 101, 102, 97, 117, 108, 116>>,  \* 'sukuk default'
         <<1578, 1582, 1604, 1601, 32, 1593, 1606, 32, 1587, 1583, 1575, 1583, 32, 1575, 1604, 1589, 1603, 1608, 1603>>,  \* 'تخلف عن سداد الصكوك'
         <<1578, 1571, 1582, 1585, 32, 1575, 1604, 1587, 1583, 1575, 1583>>,  \* 'تأخر السداد'
         <<109, 105, 115, 115, 101, 100, 32, 112, 97, 121, 109, 101, 110, 116>>,  \* 'missed payment'
         <<1573, 1593, 1575, 1583, 1577, 32, 1607, 1610, 1603, 1604, 1577, 32, 1575, 1604, 1589, 1603, 1608, 1603>>  \* 'إعادة هيكلة الصكوك'
      >>]
  >>

event_priority ==
  [ interest_rates |-> 10,
    sukuk_default |-> 9,
    saudi_regulation |-> 8,
    giga_projects |-> 7,
    oil_update |-> 6,
    vision_2030 |-> 5 ]

----------------------------------------------------------------------------
(* SaudiEventDetector.detect_events, one loop iteration (one event         *)
(* category) per step.                                                     *)

\* str.lower(), and str.upper(), on the code points of ASCII and Arabic (the
\* Arabic script has no case).
LowerChar(c) == IF c \in 65..90 THEN c + 32 ELSE c
UpperChar(c) == IF c \in 97..122 THEN c - 32 ELSE c
lower(s) == [k \in 1..Len(s) |-> LowerChar(s[k])]
upper(s) == [k \in 1..Len(s) |-> UpperChar(s[k])]

\* The lookup with a default of 0: an unweighted category adds nothing.
event_priority_get_default_zero(event_type) ==
  IF event_type \in DOMAIN event_priority THEN event_priority[event_type] ELSE 0

\* self.event_priority.get(event_type, 1)
event_priority_get(event_type) ==
  IF event_type \in DOMAIN event_priority THEN event_priority[event_type] ELSE 1

\* for keyword in keywords: if keyword in text_lower: ... break
generic_category_matches(category, t) ==
  \E k \in 1..Len(category.keywords) : Contains(lower(t), category.keywords[k])

\* for keyword in keywords: if keyword in text_lower or keyword in text: ... break
category_matches(category, t) ==
  \E k \in 1..Len(category.keywords) :
    Contains(lower(t), category.keywords[k]) \/ Contains(t, category.keywords[k])

\* The bonus taken from the priority table (sukuk_default: 9) instead.
sukuk_default_bonus_from_table == event_priority["sukuk_default"]

\* What a sukuk_default match adds to priority_score.
sukuk_default_bonus == 10

\* What an Islamic-alert match adds to priority_score.
islamic_alert_bonus(alert_type) ==
  IF alert_type = "sukuk_default" THEN sukuk_default_bonus ELSE 0

\* An Islamic-alert match leaving the importance at its initial value.
islamic_alert_importance_low == "low"

\* detected_events['event_importance'] = 'critical'
islamic_alert_importance == "critical"

new_detected_events ==
  [generic |-> <<>>, saudi_specific |-> <<>>, islamic_alerts |-> <<>>,
   event_importance |-> "low", priority_score |-> 0]

\* Advance the loop over a table of n categories; after the last one go on
\* to the loop (or the return) named by next.
AdvanceScan(n, next) ==
  IF event_index < n
    THEN event_index' = event_index + 1 /\ pc' = pc
    ELSE event_index' = 1 /\ pc' = next

ScanGenericEvent ==
  /\ pc = "generic"
  /\ LET category == generic_events[event_index]
     IN  detected_events' =
           IF generic_category_matches(category, text)
             THEN [detected_events EXCEPT !.generic = Append(@, category.event_type)]
             ELSE detected_events
  /\ AdvanceScan(Len(generic_events), "saudi")
  /\ UNCHANGED <<text, sentimentVars, entityVars, batchVars, argument, apiVars, pipelineVars>>

ScanSaudiEvent ==
  /\ pc = "saudi"
  /\ LET category == saudi_events[event_index]
     IN  detected_events' =
           IF category_matches(category, text)
             THEN [detected_events EXCEPT
                     !.saudi_specific = Append(@, category.event_type),
                     !.event_importance = "high",
                     !.priority_score = @ + event_priority_get(category.event_type)]
             ELSE detected_events
  /\ AdvanceScan(Len(saudi_events), "islamic")
  /\ UNCHANGED <<text, sentimentVars, entityVars, batchVars, argument, apiVars, pipelineVars>>

ScanIslamicAlert ==
  /\ pc = "islamic"
  /\ LET category == islamic_alerts[event_index]
     IN  detected_events' =
           IF category_matches(category, text)
             THEN [detected_events EXCEPT
                     !.islamic_alerts = Append(@, category.event_type),
                     !.event_importance = islamic_alert_importance,
                     !.priority_score = @ + islamic_alert_bonus(category.event_type)]
             ELSE detected_events
  /\ AdvanceScan(Len(islamic_alerts), "done")
  /\ UNCHANGED <<text, sentimentVars, entityVars, batchVars, argument, apiVars, pipelineVars>>

MaxPhrases == 2

\* Phrases the bounded inputs of detect_events are built from.
P_sukuk_default == <<115, 117, 107, 117, 107, 32, 100, 101, 102, 97, 117, 108, 116>>  \* 'sukuk default'
P_Sukuk_Default == <<83, 117, 107, 117, 107, 32, 68, 101, 102, 97, 117, 108, 116>>     \* 'Sukuk Default'
P_missed_payment == <<109, 105, 115, 115, 101, 100, 32, 112, 97, 121, 109, 101, 110, 116>> \* 'missed payment'
P_taakhur == <<1578, 1571, 1582, 1585, 32, 1575, 1604, 1587, 1583, 1575, 1583>>       \* 'تأخر السداد'
P_repo_rate == <<114, 101, 112, 111, 32, 114, 97, 116, 101>>                          \* 'repo rate'
P_interest_rate == <<105, 110, 116, 101, 114, 101, 115, 116, 32, 114, 97, 116, 101>>  \* 'interest rate'
P_Zakat == <<90, 97, 107, 97, 116>>                                                   \* 'Zakat'
P_profit == <<112, 114, 111, 102, 105, 116>>                                          \* 'profit'
P_NEOM == <<78, 69, 79, 77>>                                                          \* 'NEOM'
P_sharia == <<115, 104, 97, 114, 105, 97>>                                            \* 'sharia'
P_bank == <<98, 97, 110, 107>>                                                        \* 'bank', in no table
P_opec_crude == <<111, 112, 101, 99, 32, 99, 114, 117, 100, 101>>                     \* 'opec crude'

EventVocabulary ==
  {P_sukuk_default, P_Sukuk_Default, P_missed_payment, P_taakhur, P_repo_rate,
   P_interest_rate, P_Zakat, P_profit, P_NEOM, P_sharia, P_bank, P_opec_crude}

EventInputs == {join(ps) : ps \in WordSeqs(EventVocabulary, MaxPhrases)}

InitEvents ==
  /\ text \in EventInputs
  /\ pc = "generic"
  /\ detected_events = new_detected_events
  /\ event_index = 1
  /\ sentiment = NoResult /\ negation_result = NoResult
  /\ doc_ents = <<>> /\ entities = NoResult /\ first_run = NoResult
  /\ BatchIdle /\ argument = NoResult
  /\ ApiIdle /\ PipelineIdle

NextEvents == ScanGenericEvent \/ ScanSaudiEvent \/ ScanIslamicAlert

SpecEvents == InitEvents /\ [][NextEvents]_vars

----------------------------------------------------------------------------
(* Properties of detect_events.                                            *)

\* The text contains the keyword, in whatever letter case.
ContainsIgnoreCase(t, keyword) == Contains(lower(t), lower(keyword))

AlertKeywords(alert_type) ==
  UNION {Range(islamic_alerts[k].keywords) :
           k \in {j \in 1..Len(islamic_alerts) : islamic_alerts[j].event_type = alert_type}}

ContainsSukukDefault(t) ==
  \E keyword \in AlertKeywords("sukuk_default") : ContainsIgnoreCase(t, keyword)

\* C5: for every text that contains a keyword of the sukuk_default category,
\* detect_events returns event_importance 'critical' and priority_score >= 10,
\* whatever other keywords the text contains.
C5_SukukDefaultIsCritical ==
  (pc = "done" /\ detected_events # NoResult /\ ContainsSukukDefault(text)) =>
    /\ detected_events.event_importance = "critical"
    /\ detected_events.priority_score >= 10

\* A sukuk_default text that also triggered a Saudi-specific category.
C5_Witness ==
  /\ pc = "done" /\ detected_events # NoResult
  /\ ContainsSukukDefault(text)
  /\ detected_events.saudi_specific # <<>>

----------------------------------------------------------------------------
(* SaudiFinancialEntityExtractor.__init__: the static tables.  The         *)
(* extractor's islamic_terms is named extractor_islamic_terms here, the    *)
(* analyser's table having the same name.                                  *)

company_keyword_to_standard_name_map ==
  <<
    [keyword |-> <<97, 114, 97, 109, 99, 111>>,
     standard_name |-> <<83, 97, 117, 100, 105, 32, 65, 114, 97, 109, 99, 111>>],  \* 'aramco': 'Saudi Aramco'
    [keyword |-> <<115, 97, 117, 100, 105, 32, 97, 114, 97, 109, 99, 111>>,
     standard_name |-> <<83, 97, 117, 100, 105, 32, 65, 114, 97, 109, 99, 111>>],  \* 'saudi aramco': 'Saudi Aramco'
    [keyword |-> <<1571, 1585, 1575, 1605, 1603, 1608>>,
     standard_name |-> <<83, 97, 117, 100, 105, 32, 65, 114, 97, 109, 99, 111>>],  \* 'أرامكو': 'Saudi Aramco'
    [keyword |-> <<1571, 1585, 1575, 1605, 1603, 1608, 32, 1575, 1604, 1587, 1593, 1608, 1583, 1610, 1577>>,
     standard_name |-> <<83, 97, 117, 100, 105, 32, 65, 114, 97, 109, 99, 111>>],  \* 'أرامكو السعودية': 'Saudi Aramco'
    [keyword |-> <<115, 97, 98, 105, 99>>,
     standard_name |-> <<83, 65, 66, 73, 67>>],  \* 'sabic': 'SABIC'
    [keyword |-> <<1587, 1575, 1576, 1603>>,
     standard_name |-> <<83, 65, 66, 73, 67>>],  \* 'سابك': 'SABIC'
    [keyword |-> <<115, 116, 99>>,
     standard_name |-> <<83, 84, 67>>],  \* 'stc': 'STC'
    [keyword |-> <<115, 97, 117, 100, 105, 32, 116, 101, 108, 101, 99, 111, 109>>,
     standard_name |-> <<83, 84, 67>>],  \* 'saudi telecom': 'STC'
    [keyword |-> <<1575, 1604, 1575, 1578, 1589, 1575, 1604, 1575, 1578, 32, 1575, 1604, 1587, 1593, 1608, 1583, 1610, 1577>>,
     standard_name |-> <<83, 84, 67>>],  \* 'الاتصالات السعودية': 'STC'
    [keyword |-> <<115, 97, 117, 100, 105, 32, 116, 101, 108, 101, 99, 111, 109, 109, 117, 110, 105, 99, 97, 116, 105, 111, 110, 32, 99, 111, 109, 112, 97, 110, 121>>,
     standard_name |-> <<83, 84, 67>>],  \* 'saudi telecommunication company': 'STC'
    [keyword |-> <<97, 108, 32, 114, 97, 106, 104, 105>>,
     standard_name |-> <<65, 108, 32, 82, 97, 106, 104, 105, 32, 66, 97, 110, 107>>],  \* 'al rajhi': 'Al Rajhi Bank'
    [keyword |-> <<114, 97, 106, 104, 105, 32, 98, 97, 110, 107>>,
     standard_name |-> <<65, 108, 32, 82, 97, 106, 104, 105, 32, 66, 97, 110, 107>>],  \* 'rajhi bank': 'Al Rajhi Bank'
    [keyword |-> <<1605, 1589, 1585, 1601, 32, 1575, 1604, 1585, 1575, 1580, 1581, 1610>>,
     standard_name |-> <<65, 108, 32, 82, 97, 106, 104, 105, 32, 66, 97, 110, 107>>],  \* 'مصرف الراجحي': 'Al Rajhi Bank'
    [keyword |-> <<97, 108, 114, 97, 106, 104, 105, 32, 98, 97, 110, 107>>,
     standard_name |-> <<65, 108, 32, 82, 97, 106, 104, 105, 32, 66, 97, 110, 107>>],  \* 'alrajhi bank': 'Al Rajhi Bank'
    [keyword |-> <<97, 108, 105, 110, 109, 97>>,
     standard_name |-> <<65, 108, 105, 110, 109, 97, 32, 66, 97, 110, 107>>],  \* 'alinma': 'Alinma Bank'
    [keyword |-> <<97, 108, 105, 110, 109, 97, 32, 98, 97, 110, 107>>,
     standard_name |-> <<65, 108, 105, 110, 109, 97, 32, 66, 97, 110, 107>>],  \* 'alinma bank': 'Alinma Bank'
    [keyword |-> <<1605, 1589, 1585, 1601, 32, 1575, 1604, 1573, 1606, 1605, 1575, 1569>>,
     standard_name |-> <<65, 108, 105, 110, 109, 97, 32, 66, 97, 110, 107>>],  \* 'مصرف الإنماء': 'Alinma Bank'
    [keyword |-> <<115, 97, 109, 98, 97>>,
     standard_name |-> <<83, 97, 117, 100, 105, 32, 78, 97, 116, 105, 111, 110, 97, 108, 32, 66, 97, 110, 107, 32, 40, 83, 78, 66, 41>>],  \* 'samba': 'Saudi National Bank (SNB)'
    [keyword |-> <<115, 97, 109, 98, 97, 32, 102, 105, 110, 97, 110, 99, 105, 97, 108>>,
     standard_name |-> <<83, 97, 117, 100, 105, 32, 78, 97, 116, 105, 111, 110, 97, 108, 32, 66, 97, 110, 107, 32, 40, 83, 78, 66, 41>>],  \* 'samba financial': 'Saudi National Bank (SNB)'
    [keyword |-> <<1587, 1575, 1605, 1576, 1575>>,
     standard_name |-> <<83, 97, 117, 100, 105, 32, 78, 97, 116, 105, 111, 110, 97, 108, 32, 66, 97, 110, 107, 32, 40, 83, 78, 66, 41>>],  \* 'سامبا': 'Saudi National Bank (SNB)'
    [keyword |-> <<115, 110, 98>>,
     standard_name |-> <<83, 97, 117, 100, 105, 32, 78, 97, 116, 105, 111, 110, 97, 108, 32, 66, 97, 110, 107, 32, 40, 83, 78, 66, 41>>],  \* 'snb': 'Saudi National Bank (SNB)'
    [keyword |-> <<115, 97, 117, 100, 105, 32, 110, 97, 116, 105, 111, 110, 97, 108, 32, 98, 97, 110, 107>>,
     standard_name |-> <<83, 97, 117, 100, 105, 32, 78, 97, 116, 105, 111, 110, 97, 108, 32, 66, 97, 110, 107, 32, 40, 83, 78, 66, 41>>],  \* 'saudi national bank': 'Saudi National Bank (SNB)'
    [keyword |-> <<1575, 1604, 1576, 1606, 1603, 32, 1575, 1604, 1571, 1607, 1604, 1610>>,
     standard_name |-> <<83, 97, 117, 100, 105, 32, 78, 97, 116, 105, 111, 110, 97, 108, 32, 66, 97, 110, 107, 32, 40, 83, 78, 66, 41>>],  \* 'البنك الأهلي': 'Saudi National Bank (SNB)'
    [keyword |-> <<1575, 1604, 1576, 1606, 1603, 32, 1575, 1604, 1571, 1607, 1604, 1610, 32, 1575, 1604, 1587, 1593, 1608, 1583, 1610>>,
     standard_name |-> <<83, 97, 117, 100, 105, 32, 78, 97, 116, 105, 111, 110, 97, 108, 32, 66, 97, 110, 107, 32, 40, 83, 78, 66, 41>>],  \* 'البنك الأهلي السعودي': 'Saudi National Bank (SNB)'
    [keyword |-> <<114, 105, 121, 97, 100, 32, 98, 97, 110, 107>>,
     standard_name |-> <<82, 105, 121, 97, 100, 32, 66, 97, 110, 107>>],  \* 'riyad bank': 'Riyad Bank'
    [keyword |-> <<1576, 1606, 1603, 32, 1575, 1604, 1585, 1610, 1575, 1590>>,
     standard_name |-> <<82, 105, 121, 97, 100, 32, 66, 97, 110, 107>>],  \* 'بنك الرياض': 'Riyad Bank'
    [keyword |-> <<109, 97, 97, 100, 101, 110>>,
     standard_name |-> <<77, 97, 97, 100, 101, 110>>],  \* 'maaden': 'Maaden'
    [keyword |-> <<1605, 1593, 1575, 1583, 1606>>,
     standard_name |-> <<77, 97, 97, 100, 101, 110>>],  \* 'معادن': 'Maaden'
    [keyword |-> <<115, 97, 117, 100, 105, 32, 97, 114, 97, 98, 105, 97, 110, 32, 109, 105, 110, 105, 110, 103, 32, 99, 111, 109, 112, 97, 110, 121>>,
     standard_name |-> <<77, 97, 97, 100, 101, 110>>],  \* 'saudi arabian mining company': 'Maaden'
    [keyword |-> <<97, 108, 109, 97, 114, 97, 105>>,
     standard_name |-> <<65, 108, 109, 97, 114, 97, 105>>],  \* 'almarai': 'Almarai'
    [keyword |-> <<1575, 1604, 1605, 1585, 1575, 1593, 1610>>,
     standard_name |-> <<65, 108, 109, 97, 114, 97, 105>>]  \* 'المراعي': 'Almarai'
  >>

saudi_regulators ==
  {
    <<115, 97, 109, 97>>,  \* 'sama'
    <<115, 97, 117, 100, 105, 32, 99, 101, 110, 116, 114, 97, 108, 32, 98, 97, 110, 107>>,  \* 'saudi central bank'
    <<1605, 1572, 1587, 1587, 1577, 32, 1575, 1604, 1606, 1602, 1583>>,  \* 'مؤسسة النقد'
    <<99, 109, 97>>,  \* 'cma'
    <<99, 97, 112, 105, 116, 97, 108, 32, 109, 97, 114, 107, 101, 116, 32, 97, 117, 116, 104, 111, 114, 105, 116, 121>>,  \* 'capital market authority'
    <<1607, 1610, 1574, 1577, 32, 1575, 1604, 1587, 1608, 1602, 32, 1575, 1604, 1605, 1575, 1604, 1610, 1577>>,  \* 'هيئة السوق المالية'
    <<116, 97, 100, 97, 119, 117, 108>>,  \* 'tadawul'
    <<115, 97, 117, 100, 105, 32, 101, 120, 99, 104, 97, 110, 103, 101>>,  \* 'saudi exchange'
    <<1578, 1583, 1575, 1608, 1604>>  \* 'تداول'
  }

vision_2030_keywords ==
  {
    <<118, 105, 115, 105, 111, 110, 32, 50, 48, 51, 48>>,  \* 'vision 2030'
    <<1585, 1572, 1610, 1577, 32, 50, 48, 51, 48>>,  \* 'رؤية 2030'
    <<110, 101, 111, 109>>,  \* 'neom'
    <<1606, 1610, 1608, 1605>>,  \* 'نيوم'
    <<114, 101, 100, 32, 115, 101, 97, 32, 112, 114, 111, 106, 101, 99, 116>>,  \* 'red sea project'
    <<1605, 1588, 1585, 1608, 1593, 32, 1575, 1604, 1576, 1581, 1585, 32, 1575, 1604, 1571, 1581, 1605, 1585>>,  \* 'مشروع البحر الأحمر'
    <<113, 105, 100, 100, 105, 121, 97>>,  \* 'qiddiya'
    <<1575, 1604, 1602, 1583, 1610, 1577>>,  \* 'القدية'
    <<115, 97, 117, 100, 105, 32, 103, 114, 101, 101, 110, 32, 105, 110, 105, 116, 105, 97, 116, 105, 118, 101>>,  \* 'saudi green initiative'
    <<1605, 1576, 1575, 1583, 1585, 1577, 32, 1575, 1604, 1587, 1593, 1608, 1583, 1610, 1577, 32, 1575, 1604, 1582, 1590, 1585, 1575, 1569>>  \* 'مبادرة السعودية الخضراء'
  }

extractor_islamic_terms ==
  <<
    [eng_term |-> <<115, 117, 107, 117, 107>>,
     ar_term |-> <<1589, 1603, 1608, 1603>>],  \* 'sukuk': 'صكوك'
    [eng_term |-> <<115, 104, 97, 114, 105, 97>>,
     ar_term |-> <<1588, 1585, 1610, 1593, 1577>>],  \* 'sharia': 'شريعة'
    [eng_term |-> <<122, 97, 107, 97, 116>>,
     ar_term |-> <<1586, 1603, 1575, 1577>>],  \* 'zakat': 'زكاة'
    [eng_term |-> <<114, 105, 98, 97>>,
     ar_term |-> <<1585, 1576, 1575>>],  \* 'riba': 'ربا'
    [eng_term |-> <<109, 117, 114, 97, 98, 97, 104, 97>>,
     ar_term |-> <<1605, 1585, 1575, 1576, 1581, 1577>>],  \* 'murabaha': 'مرابحة'
    [eng_term |-> <<104, 97, 108, 97, 108>>,
     ar_term |-> <<1581, 1604, 1575, 1604>>],  \* 'halal': 'حلال'
    [eng_term |-> <<105, 115, 108, 97, 109, 105, 99, 32, 98, 97, 110, 107, 105, 110, 103>>,
     ar_term |-> <<1575, 1604, 1605, 1589, 1585, 1601, 1610, 1577, 32, 1575, 1604, 1573, 1587, 1604, 1575, 1605, 1610, 1577>>],  \* 'islamic banking': 'المصرفية الإسلامية'
    [eng_term |-> <<115, 104, 97, 114, 105, 97, 32, 99, 111, 109, 112, 108, 105, 97, 110, 116>>,
     ar_term |-> <<1605, 1578, 1608, 1575, 1601, 1602, 32, 1605, 1593, 32, 1575, 1604, 1588, 1585, 1610, 1593, 1577>>]  \* 'sharia compliant': 'متوافق مع الشريعة'
  >>

----------------------------------------------------------------------------
(* SaudiFinancialEntityExtractor.extract_entities.                         *)
(*                                                                         *)
(* doc = self.nlp(text) is the external spaCy recogniser: its entities     *)
(* doc.ents are an input (doc_ents), a sequence of [label_, text].  The    *)
(* three keyword sets are Python sets: the order a for loop visits them is *)
(* not fixed by the program, so it is a parameter of the operator.         *)

EntityCategories ==
  {"organizations", "locations", "people", "money",
   "islamic_finance", "saudi_specific", "regulators", "vision_2030"}

empty_entities == [c \in EntityCategories |-> <<>>]

\* self.saudi_company_keywords_set = set(map.keys())
saudi_company_keywords_set ==
  {company_keyword_to_standard_name_map[k].keyword :
     k \in 1..Len(company_keyword_to_standard_name_map)}

\* self.company_keyword_to_standard_name_map.get(keyword_variation)
standard_name_get(keyword_variation) ==
  LET k == CHOOSE j \in 1..Len(company_keyword_to_standard_name_map) :
             company_keyword_to_standard_name_map[j].keyword = keyword_variation
  IN  company_keyword_to_standard_name_map[k].standard_name

\* any('؀' <= char <= 'ۿ' for char in keyword)
is_arabic_keyword(keyword) == \E k \in 1..Len(keyword) : keyword[k] \in 1536..1791

\* str.strip()
strip(s) ==
  LET kept == {i \in 1..Len(s) : ~IsSpace(s[i])}
  IN  IF kept = {} THEN <<>>
      ELSE SubSeq(s, CHOOSE i \in kept : \A j \in kept : i <= j,
                     CHOOSE i \in kept : \A j \in kept : i >= j)

\* A letter with a lower and an upper case (ASCII; Arabic has none).
IsCased(c) == c \in 65..90 \/ c \in 97..122

\* str.title(): a cased letter is upper-cased after an uncased character (or
\* at the start) and lower-cased after a cased one.
title(s) ==
  [k \in 1..Len(s) |->
     IF k > 1 /\ IsCased(s[k - 1]) THEN LowerChar(s[k]) ELSE UpperChar(s[k])]

\* The search made in the original text whatever the script of the keyword.
text_to_search_original(keyword, t) == t

\* text if self._is_arabic_keyword(keyword) else text_lower
text_to_search(keyword, t) == IF is_arabic_keyword(keyword) THEN t ELSE lower(t)

\* keyword if self._is_arabic_keyword(keyword) else keyword.lower()
normalized_keyword_for_search(keyword) ==
  IF is_arabic_keyword(keyword) THEN keyword ELSE lower(keyword)

\* normalized_keyword_for_search in text_to_search
keyword_in_text(keyword, t) ==
  Contains(text_to_search(keyword, t), normalized_keyword_for_search(keyword))

\* if x not in lst: lst.append(x)
append_if_absent(lst, x) == IF x \in Range(lst) THEN lst ELSE Append(lst, x)

\* The body of the loop over doc.ents, on the bag built so far.
ner_step(bag, ent) ==
  LET ent_text_stripped == strip(ent.text)
      add(c) == [bag EXCEPT ![c] = Append(@, ent_text_stripped)]
      absent(c) == ent_text_stripped \notin Range(bag[c])
  IN  IF ent_text_stripped = <<>> THEN bag
      ELSE IF ent.label_ = "ORG" /\ absent("organizations") THEN add("organizations")
      ELSE IF ent.label_ \in {"GPE", "LOC"} /\ absent("locations") THEN add("locations")
      ELSE IF ent.label_ = "PERSON" /\ absent("people") THEN add("people")
      ELSE IF ent.label_ = "MONEY" /\ absent("money") THEN add("money")
      ELSE bag

RECURSIVE ner_loop(_, _, _)
ner_loop(bag, ents, k) ==
  IF k > Len(ents) THEN bag
  ELSE ner_loop(ner_step(bag, ents[k]), ents, k + 1)

\* Only an entry equal to the canonical name counts as already present.
is_similar_org_exact(standard_name, org_in_list) == org_in_list = standard_name

\* standard_name.lower() in org.lower() or org.lower() in standard_name.lower()
is_similar_org(standard_name, org_in_list) ==
  \/ Contains(lower(org_in_list), lower(standard_name))
  \/ Contains(lower(standard_name), lower(org_in_list))

\* The body of the loop over saudi_company_keywords_set, on
\* acc = [bag, found] (found: standard_company_names_found_this_text).
company_step(acc, keyword_variation, t) ==
  IF ~keyword_in_text(keyword_variation, t) THEN acc
  ELSE
    LET standard_name == standard_name_get(keyword_variation)
    IN  IF standard_name = <<>> \/ standard_name \in acc.found THEN acc
        ELSE
          LET is_similar_org_already_present ==
                \E org_in_list \in Range(acc.bag["organizations"]) :
                  is_similar_org(standard_name, org_in_list)
          IN  [bag |->
                 [acc.bag EXCEPT
                    !["saudi_specific"] = Append(@, standard_name),
                    !["organizations"] =
                        IF is_similar_org_already_present THEN @
                        ELSE Append(@, standard_name)],
               found |-> acc.found \cup {standard_name}]

RECURSIVE company_loop(_, _, _, _)
company_loop(acc, order, k, t) ==
  IF k > Len(order) THEN acc
  ELSE company_loop(company_step(acc, order[k], t), order, k + 1, t)

\* The loop over self.islamic_terms.items(): the English key is recorded when
\* the English or the Arabic term occurs (a dict has no duplicate keys, so
\* eng_term is never in found_islamic_terms_this_text when its turn comes).
islamic_finance_found(t) ==
  LET hit(e) == Contains(lower(t), lower(e.eng_term)) \/ Contains(t, e.ar_term)
      hits == SelectSeq(extractor_islamic_terms, hit)
  IN  [k \in 1..Len(hits) |-> hits[k].eng_term]

\* The loop over saudi_regulators, in the order given: keyword.upper() is
\* recorded once (found_regulators_this_text mirrors the list).
RECURSIVE regulator_loop(_, _, _, _)
regulator_loop(lst, order, k, t) ==
  IF k > Len(order) THEN lst
  ELSE regulator_loop(IF keyword_in_text(order[k], t)
                        THEN append_if_absent(lst, upper(order[k])) ELSE lst,
                      order, k + 1, t)

\* The loop over vision_2030_keywords, in the order given: keyword.title()
\* is recorded once.
RECURSIVE vision_loop(_, _, _, _)
vision_loop(lst, order, k, t) ==
  IF k > Len(order) THEN lst
  ELSE vision_loop(IF keyword_in_text(order[k], t)
                     THEN append_if_absent(lst, title(order[k])) ELSE lst,
                   order, k + 1, t)

\* \d and [\d,] of re, for ASCII and the Arabic block.
IsDigit(c) == c \in 48..57 \/ c \in 1632..1641 \/ c \in 1776..1785
IsDigitOrComma(c) == IsDigit(c) \/ c = 44

\* The character classes of sar_pattern: \s, [\d,] and \d.
InClass(c, cls) ==
  CASE cls = "space" -> IsSpace(c)
    [] cls = "digit_or_comma" -> IsDigitOrComma(c)
    [] cls = "digit" -> IsDigit(c)

\* The end (exclusive) of the maximal run of characters of class cls from p.
RunEnd(s, p, cls) ==
  CHOOSE q \in p..(Len(s) + 1) :
    /\ \A m \in p..(q - 1) : InClass(s[m], cls)
    /\ (q = Len(s) + 1 \/ ~InClass(s[q], cls))

SAR_heads == {<<115, 97, 114>>, <<1585, 1610, 1575, 1604>>}     \* SAR | ريال
SAR_magnitudes ==
  {<<98, 105, 108, 108, 105, 111, 110>>,       \* billion
   <<109, 105, 108, 108, 105, 111, 110>>,      \* million
   <<1605, 1604, 1610, 1575, 1585>>,           \* مليار
   <<1605, 1604, 1610, 1608, 1606>>}           \* مليون

\* sar_pattern matched at position p of s, under re.IGNORECASE: the end
\* (exclusive) of the match, 0 when the pattern does not match at p.
\*   (?:SAR|ريال)\s*[\d,]+(?:\.\d+)?(?:\s*(?:billion|million|مليار|مليون))?
sar_match_end(s, p) ==
  LET heads == {h \in SAR_heads : OccursAt(h, lower(s), p)}
  IN  IF heads = {} THEN 0
      ELSE
        LET h == CHOOSE x \in heads : TRUE
            q1 == RunEnd(s, p + Len(h), "space")
            q2 == RunEnd(s, q1, "digit_or_comma")
            q3 == IF q2 <= Len(s) /\ s[q2] = 46 /\ RunEnd(s, q2 + 1, "digit") > q2 + 1
                    THEN RunEnd(s, q2 + 1, "digit") ELSE q2
            q4 == RunEnd(s, q3, "space")
            mags == {m \in SAR_magnitudes : OccursAt(m, lower(s), q4)}
        IN  IF q2 = q1 THEN 0
            ELSE IF mags = {} THEN q3
            ELSE q4 + Len(CHOOSE m \in mags : TRUE)

\* re.findall(sar_pattern, text, re.IGNORECASE): the matches from position
\* from on, leftmost first and not overlapping.
RECURSIVE sar_findall(_, _)
sar_findall(s, from) ==
  LET starts == {p \in from..Len(s) : sar_match_end(s, p) # 0}
  IN  IF starts = {} THEN <<>>
      ELSE LET p == CHOOSE x \in starts : \A y \in starts : x <= y
           IN  <<SubSeq(s, p, sar_match_end(s, p) - 1)>> \o sar_findall(s, sar_match_end(s, p))

RECURSIVE append_all_absent(_, _, _)
append_all_absent(lst, items, k) ==
  IF k > Len(items) THEN lst
  ELSE append_all_absent(append_if_absent(lst, items[k]), items, k + 1)

\* a < b for two strs (lexicographic on code points).
StrLess(a, b) ==
  \E k \in 1..(Min(Len(a), Len(b)) + 1) :
    /\ \A j \in 1..(k - 1) : a[j] = b[j]
    /\ IF k > Len(a) THEN k <= Len(b)
       ELSE k <= Len(b) /\ a[k] < b[k]

\* The list returned as built, neither deduplicated nor sorted.
sorted_set_skipped(lst) == lst

\* list(set(lst)) left in the order of first occurrence, not sorted.
sorted_set_unsorted(lst) ==
  LET marked == [k \in 1..Len(lst) |->
                   [v |-> lst[k], first |-> \A j \in 1..(k - 1) : lst[j] # lst[k]]]
      kept == SelectSeq(marked, LAMBDA e : e.first)
  IN  [k \in 1..Len(kept) |-> kept[k].v]

\* sorted(list(set(lst)))
sorted_set(lst) ==
  LET S == Range(lst)
  IN  [k \in 1..Cardinality(S) |->
         CHOOSE x \in S : Cardinality({y \in S : StrLess(y, x)}) = k - 1]

extract_entities(t, ents, company_order, regulator_order, vision_order) ==
  IF strip(t) = <<>> THEN empty_entities
  ELSE
    LET e1 == ner_loop(empty_entities, ents, 1)
        e2 == company_loop([bag |-> e1, found |-> {}], company_order, 1, t).bag
        e3 == [e2 EXCEPT
                 !["islamic_finance"] = islamic_finance_found(t),
                 !["regulators"] = regulator_loop(<<>>, regulator_order, 1, t),
                 !["vision_2030"] = vision_loop(<<>>, vision_order, 1, t),
                 !["money"] = append_all_absent(@, sar_findall(t, 1), 1)]
    IN  [c \in EntityCategories |-> sorted_set(e3[c])]

----------------------------------------------------------------------------
(* extract_entities applied twice to one text.                             *)

\* The orders a for loop may visit a set in.  A keyword that does not occur
\* in the text leaves the loop's state as it is, so only the relative order
\* of the keywords that occur is drawn.
RECURSIVE Orders(_)
Orders(S) ==
  IF S = {} THEN {<<>>}
  ELSE UNION {{<<x>> \o rest : rest \in Orders(S \ {x})} : x \in S}

IterationOrders(keyword_set, t) == Orders({k \in keyword_set : keyword_in_text(k, t)})

MaxEntityPhrases == 2

\* Phrases the bounded inputs of extract_entities are built from.
Q_Saudi_Aramco == <<83, 97, 117, 100, 105, 32, 65, 114, 97, 109, 99, 111>>   \* 'Saudi Aramco'
Q_aramco_ar == <<1571, 1585, 1575, 1605, 1603, 1608>>                         \* 'أرامكو'
Q_Alinma_Bank == <<65, 108, 105, 110, 109, 97, 32, 66, 97, 110, 107>>        \* 'Alinma Bank'
Q_SNB == <<83, 78, 66>>                                                       \* 'SNB'
Q_Samba == <<83, 97, 109, 98, 97>>                                            \* 'Samba'
Q_SAMA == <<83, 65, 77, 65>>                                                  \* 'SAMA'
Q_tadawul_ar == <<1578, 1583, 1575, 1608, 1604>>                              \* 'تداول'
Q_NEOM == <<78, 69, 79, 77>>                                                  \* 'NEOM'
Q_vision_2030 == <<118, 105, 115, 105, 111, 110, 32, 50, 48, 51, 48>>         \* 'vision 2030'
Q_sukuk == <<115, 117, 107, 117, 107>>                                        \* 'sukuk'
Q_SAR_5_billion == <<83, 65, 82, 32, 53, 32, 98, 105, 108, 108, 105, 111, 110>> \* 'SAR 5 billion'
Q_talks == <<116, 97, 108, 107, 115>>                                         \* 'talks', in no table

EntityVocabulary ==
  {Q_Saudi_Aramco, Q_aramco_ar, Q_Alinma_Bank, Q_SNB, Q_Samba, Q_SAMA,
   Q_tadawul_ar, Q_NEOM, Q_vision_2030, Q_sukuk, Q_SAR_5_billion, Q_talks}

EntityInputs ==
  {join(ps) : ps \in WordSeqs(EntityVocabulary, MaxEntityPhrases)} \cup {<<32>>}

\* What the recogniser may return for a text.
Ent(label, s) == [label_ |-> label, text |-> s]
NerOutputs ==
  { <<>>,
    <<Ent("ORG", <<65, 114, 97, 109, 99, 111>>),              \* Aramco
      Ent("GPE", <<82, 105, 121, 97, 100, 104>>)>>,           \* Riyadh
    <<Ent("ORG", <<83, 78, 66, 32>>),                         \* 'SNB '
      Ent("ORG", <<83, 78, 66>>),                             \* 'SNB'
      Ent("MONEY", <<83, 65, 82, 32, 53>>),                   \* 'SAR 5'
      Ent("PERSON", <<65, 108, 32, 82, 97, 106, 104, 105>>)>>, \* 'Al Rajhi'
    <<Ent("ORG", <<32>>),                                     \* ' '
      Ent("DATE", <<50, 48, 51, 48>>)>> }                     \* '2030'

InitEntities ==
  /\ text \in EntityInputs
  /\ doc_ents \in NerOutputs
  /\ pc = "start"
  /\ entities = NoResult
  /\ first_run = NoResult
  /\ sentiment = NoResult /\ negation_result = NoResult
  /\ detected_events = NoResult
  /\ event_index = 0
  /\ BatchIdle /\ argument = NoResult
  /\ ApiIdle /\ PipelineIdle

\* One call of extract_entities(text).
ExtractEntities ==
  /\ pc = "start"
  /\ \E company_order \in IterationOrders(saudi_company_keywords_set, text),
        regulator_order \in IterationOrders(saudi_regulators, text),
        vision_order \in IterationOrders(vision_2030_keywords, text) :
       entities' = extract_entities(text, doc_ents, company_order, regulator_order, vision_order)
  /\ pc' = "done"
  /\ UNCHANGED <<text, doc_ents, first_run, sentimentVars, eventVars, batchVars, argument, apiVars, pipelineVars>>

\* A second call on the same text, the first result kept for comparison.
ExtractEntitiesAgain ==
  /\ pc = "done"
  /\ entities # NoResult
  /\ first_run = NoResult
  /\ first_run' = entities
  /\ \E company_order \in IterationOrders(saudi_company_keywords_set, text),
        regulator_order \in IterationOrders(saudi_regulators, text),
        vision_order \in IterationOrders(vision_2030_keywords, text) :
       entities' = extract_entities(text, doc_ents, company_order, regulator_order, vision_order)
  /\ UNCHANGED <<text, doc_ents, pc, sentimentVars, eventVars, batchVars, argument, apiVars, pipelineVars>>

NextEntities == ExtractEntities \/ ExtractEntitiesAgain

SpecEntities == InitEntities /\ [][NextEntities]_vars

----------------------------------------------------------------------------
(* Properties of extract_entities.                                         *)

\* C6: extract_entities is deterministic: two runs on the same input text
\* return identical EntityBags, for every order in which the keyword sets
\* (company variants, regulators, Vision-2030 keywords) may be iterated.
C6_ExtractEntitiesDeterministic ==
  (pc = "done" /\ first_run # NoResult) => entities = first_run

\* Two runs are over on a text in which at least two company keywords and a
\* regulator occur, so each run had several orders to choose from.
C6_Witness ==
  /\ pc = "done" /\ first_run # NoResult
  /\ Cardinality({k \in saudi_company_keywords_set : keyword_in_text(k, text)}) >= 2
  /\ first_run["organizations"] # <<>>
  /\ first_run["regulators"] # <<>>

StandardNames ==
  {company_keyword_to_standard_name_map[k].standard_name :
     k \in 1..Len(company_keyword_to_standard_name_map)}

\* The keyword variants of a canonical name that the text contains, Latin
\* ones in any letter case.
VariantsInText(name, t) ==
  {k \in 1..Len(company_keyword_to_standard_name_map) :
     /\ company_keyword_to_standard_name_map[k].standard_name = name
     /\ ContainsIgnoreCase(t, company_keyword_to_standard_name_map[k].keyword)}

Occurrences(lst, x) == Cardinality({k \in 1..Len(lst) : lst[k] = x})

\* C7: when a text contains two or more keyword variants (Latin or Arabic)
\* of the same canonical entity, saudi_specific holds exactly one entry for
\* that canonical name.
C7_OneEntryPerCanonicalName ==
  (pc = "done" /\ entities # NoResult) =>
    \A name \in StandardNames :
      Cardinality(VariantsInText(name, text)) >= 2 =>
        Occurrences(entities["saudi_specific"], name) = 1

\* A text with a Latin and an Arabic variant of one canonical name.
C7_Witness ==
  /\ pc = "done" /\ entities # NoResult
  /\ \E name \in StandardNames :
       \E k1, k2 \in VariantsInText(name, text) :
         /\ is_arabic_keyword(company_keyword_to_standard_name_map[k1].keyword)
         /\ ~is_arabic_keyword(company_keyword_to_standard_name_map[k2].keyword)

----------------------------------------------------------------------------
(* RuleBasedArabicSentimentAnalyzer.analyze_dataset: the file is loaded,   *)
(* the loop scores one item per step, the report is computed at the end.   *)
(* An exception that nothing catches ends the call: pc = "raised".         *)

\* A JSON value as Python sees it after json.load: a str, None, a number
\* other than zero, or (for a dict entry) a key that is not there.
JStr(s)  == [t |-> "str", v |-> s]
JNone    == [t |-> "none", v |-> <<>>]
JNumber  == [t |-> "number", v |-> <<>>]
JAbsent  == [t |-> "absent", v |-> <<>>]

\* An element of the list: a dict with its 'text' and 'label' entries, or
\* anything that is not a dict.
Item(text_value, label_value) ==
  [is_dict |-> TRUE, text |-> text_value, label |-> label_value]
NotADict == [is_dict |-> FALSE, text |-> JAbsent, label |-> JAbsent]

\* item.get(key, '')
dict_get(value, default) == IF value.t = "absent" THEN default ELSE value

\* Python truth value of a JSON value
truthy(value) ==
  CASE value.t = "str" -> value.v # <<>>
    [] value.t = "none" -> FALSE
    [] OTHER -> TRUE

\* labels = ['positive', 'negative', 'neutral'], and the characters of each
labels == <<"positive", "negative", "neutral">>
label_chars ==
  [positive |-> <<112, 111, 115, 105, 116, 105, 118, 101>>,
   negative |-> <<110, 101, 103, 97, 116, 105, 118, 101>>,
   neutral  |-> <<110, 101, 117, 116, 114, 97, 108>>]

\* confusion = {actual: {pred: 0 for pred in labels} for actual in labels}
new_confusion ==
  [actual \in Range(labels) |-> [pred \in Range(labels) |-> 0]]

\* `expected_label in confusion`, and the key it is
in_confusion(expected_label) ==
  \E l \in Range(labels) : label_chars[l] = expected_label
confusion_key(expected_label) ==
  CHOOSE l \in Range(labels) : label_chars[l] = expected_label

\* The increment with the roles of the row and the column exchanged.
confusion_increment_transposed(conf, expected_key, predicted_label) ==
  [conf EXCEPT ![predicted_label][expected_key] = @ + 1]

\* confusion[expected_label][predicted_label] += 1
confusion_increment(conf, expected_key, predicted_label) ==
  [conf EXCEPT ![expected_key][predicted_label] = @ + 1]

\* What one iteration of the loop does with an item: it raises, it skips the
\* item (continue), or it scores it.
item_outcome(item) ==
  IF ~item.is_dict THEN "AttributeError"                  \* item.get
  ELSE LET text_value  == dict_get(item.text, JStr(<<>>))
           label_value == dict_get(item.label, JStr(<<>>))
       IN  IF label_value.t # "str" THEN "AttributeError" \* .lower()
           ELSE IF ~truthy(text_value) \/ lower(label_value.v) = <<>>
                THEN "continue"
           ELSE IF text_value.t # "str" THEN "AttributeError" \* text.split()
           ELSE "scored"

\* Arithmetic on ratios.  A ratio whose den is 0 stands for the
\* ZeroDivisionError that computing it raises.
FracAdd(a, b) == Frac(a.num * b.den + b.num * a.den, a.den * b.den)
FracMul(a, b) == Frac(a.num * b.num, a.den * b.den)
true_division(a, b) == Frac(a.num * b.den, a.den * b.num)
raised_ZeroDivisionError(f) == f.den = 0

\* The precision divided out whatever the column sum is.
precision_unguarded(true_positives, predicted_sum) ==
  Frac(true_positives, predicted_sum)

\* precision = true_positives / predicted_sum if predicted_sum > 0 else 0
precision_of(true_positives, predicted_sum) ==
  IF predicted_sum > 0 THEN Frac(true_positives, predicted_sum) ELSE Frac(0, 1)

\* recall = true_positives / actual_sum if actual_sum > 0 else 0
recall_of(true_positives, actual_sum) ==
  IF actual_sum > 0 THEN Frac(true_positives, actual_sum) ELSE Frac(0, 1)

\* f1 = 2 * (precision * recall) / (precision + recall)
\*        if (precision + recall) > 0 else 0
f1_of(precision, recall) ==
  IF FracAdd(precision, recall).num > 0
  THEN true_division(FracMul(Frac(2, 1), FracMul(precision, recall)),
                     FracAdd(precision, recall))
  ELSE Frac(0, 1)

predicted_sum_of(conf, class_label) ==
  conf["positive"][class_label] + conf["negative"][class_label]
    + conf["neutral"][class_label]

actual_sum_of(conf, class_label) ==
  conf[class_label]["positive"] + conf[class_label]["negative"]
    + conf[class_label]["neutral"]

\* The three metrics of one class before rounding.
class_metrics_of(conf, class_label) ==
  LET true_positives == conf[class_label][class_label]
      precision == precision_of(true_positives, predicted_sum_of(conf, class_label))
      recall    == recall_of(true_positives, actual_sum_of(conf, class_label))
  IN  [precision |-> precision, recall |-> recall, f1 |-> f1_of(precision, recall)]

\* accuracy = correct_predictions / total_examples if total_examples > 0 else 0
accuracy_of(correct, total_examples) ==
  IF total_examples > 0 THEN Frac(correct, total_examples) ELSE Frac(0, 1)

\* `return {}`
EmptyDict == [empty |-> TRUE]

MaxItems == 3

\* Label strings of the bounded datasets.
L_Negative == <<78, 101, 103, 97, 116, 105, 118, 101>>     \* 'Negative'
L_mixed    == <<109, 105, 120, 101, 100>>                  \* 'mixed'

\* The items the bounded datasets are built from.
DatasetItems ==
  { Item(JStr(W_nmw), JStr(label_chars["positive"])),    \* predicted positive
    Item(JStr(W_nmw), JStr(L_Negative)),                 \* predicted positive
    Item(JStr(W_khsair), JStr(label_chars["negative"])), \* predicted negative
    Item(JStr(W_shrkh), JStr(label_chars["neutral"])),   \* predicted neutral
    Item(JStr(W_shrkh), JStr(label_chars["positive"])),  \* predicted neutral
    Item(JStr(W_nmw), JStr(L_mixed)),                    \* label outside the matrix
    Item(JStr(<<>>), JStr(label_chars["positive"])),     \* empty text
    Item(JStr(W_nmw), JAbsent),                          \* no 'label' key
    Item(JNone, JStr(label_chars["negative"])),          \* "text": null
    Item(JStr(W_nmw), JNone),                            \* "label": null
    Item(JNumber, JStr(label_chars["positive"])),        \* "text": 5
    NotADict }

\* except (FileNotFoundError, json.JSONDecodeError)
caught_exceptions == {"FileNotFoundError", "JSONDecodeError"}

\* What open() and json.load() give: the list, or the exception they raise:
\* no such file, text that does not parse as JSON, or bytes that are not
\* UTF-8 (the file is opened with encoding='utf-8').
DatasetFiles ==
  {[status |-> "ok", data |-> d] : d \in WordSeqs(DatasetItems, MaxItems)}
    \cup {[status |-> "FileNotFoundError", data |-> <<>>],
          [status |-> "JSONDecodeError", data |-> <<>>],
          [status |-> "UnicodeDecodeError", data |-> <<>>]}

InitBatch ==
  /\ dataset_file \in DatasetFiles
  /\ pc = "start"
  /\ data = <<>> /\ item_index = 0
  /\ results = <<>> /\ correct_predictions = 0 /\ confusion = NoResult
  /\ report = NoResult /\ error = ""
  /\ text = <<>> /\ sentiment = NoResult /\ negation_result = NoResult
  /\ detected_events = NoResult /\ event_index = 0
  /\ doc_ents = <<>> /\ entities = NoResult /\ first_run = NoResult
  /\ argument = NoResult
  /\ ApiIdle /\ PipelineIdle

\* The try block and the initialisations before the loop.
LoadDataset ==
  /\ pc = "start"
  /\ IF dataset_file.status = "ok"
     THEN /\ data' = dataset_file.data
          /\ results' = <<>>
          /\ correct_predictions' = 0
          /\ confusion' = new_confusion
          /\ item_index' = 1
          /\ pc' = "loop"
          /\ report' = report
          /\ error' = error
     ELSE /\ IF dataset_file.status \in caught_exceptions
             THEN report' = EmptyDict /\ pc' = "done" /\ error' = error
             ELSE report' = report /\ pc' = "raised" /\ error' = dataset_file.status
          /\ UNCHANGED <<data, results, correct_predictions, confusion, item_index>>
  /\ UNCHANGED <<dataset_file, text, sentimentVars, eventVars, entityVars, argument, apiVars, pipelineVars>>

\* Every scored item counted as correct.
predicted_equals_expected_always(predicted_label, expected_label) == TRUE

\* if predicted_label == expected_label
predicted_equals_expected(predicted_label, expected_label) ==
  label_chars[predicted_label] = expected_label

\* One iteration of `for i, item in enumerate(data)`.
ProcessItem ==
  /\ pc = "loop"
  /\ item_index <= Len(data)
  /\ LET item    == data[item_index]
         outcome == item_outcome(item)
     IN  IF outcome = "AttributeError"
         THEN /\ pc' = "raised"
              /\ error' = "AttributeError"
              /\ UNCHANGED <<item_index, results, correct_predictions, confusion>>
         ELSE IF outcome = "continue"
         THEN /\ item_index' = item_index + 1
              /\ UNCHANGED <<pc, error, results, correct_predictions, confusion>>
         ELSE \E prediction_result \in {predict_sentiment(item.text.v)},
                 expected_label \in {lower(item.label.v)} :
              \E predicted_label \in {prediction_result.label} :
                  /\ results' = Append(results,
                                  [text |-> item.text.v,
                                   expected |-> expected_label,
                                   predicted |-> predicted_label,
                                   confidence |-> prediction_result.confidence,
                                   matched_terms |-> prediction_result.matched_terms])
                  /\ confusion' = IF in_confusion(expected_label)
                                  THEN confusion_increment(confusion,
                                         confusion_key(expected_label), predicted_label)
                                  ELSE confusion
                  /\ correct_predictions' =
                       IF predicted_equals_expected(predicted_label, expected_label)
                       THEN correct_predictions + 1 ELSE correct_predictions
                  /\ item_index' = item_index + 1
                  /\ UNCHANGED <<pc, error>>
  /\ UNCHANGED <<dataset_file, data, report, text, sentimentVars, eventVars, entityVars, argument, apiVars, pipelineVars>>

\* After the loop: accuracy, the per-class metrics and the returned dict.
ComputeReport ==
  /\ pc = "loop"
  /\ item_index > Len(data)
  /\ LET total_examples == Len(data)
         accuracy == accuracy_of(correct_predictions, total_examples)
         metrics  == [c \in Range(labels) |-> class_metrics_of(confusion, c)]
     IN  IF \E c \in Range(labels) :
               \/ raised_ZeroDivisionError(metrics[c].precision)
               \/ raised_ZeroDivisionError(metrics[c].recall)
               \/ raised_ZeroDivisionError(metrics[c].f1)
         THEN /\ pc' = "raised"
              /\ error' = "ZeroDivisionError"
              /\ report' = report
         ELSE /\ pc' = "done"
              /\ error' = error
              /\ report' =
                   [accuracy |-> round3(accuracy),
                    total_examples |-> total_examples,
                    correct_predictions |-> correct_predictions,
                    confusion_matrix |-> confusion,
                    class_metrics |->
                      [c \in Range(labels) |->
                         [precision |-> round3(metrics[c].precision),
                          recall    |-> round3(metrics[c].recall),
                          f1_score  |-> round3(metrics[c].f1)]],
                    results_breakdown |-> results]
  /\ UNCHANGED <<dataset_file, data, item_index, results, correct_predictions,
                 confusion, text, sentimentVars, eventVars, entityVars, argument, apiVars, pipelineVars>>

NextBatch == LoadDataset \/ ProcessItem \/ ComputeReport

SpecBatch == InitBatch /\ [][NextBatch]_vars

\* The report of a run that loaded its file and reached the return.
Reported == pc = "done" /\ report # EmptyDict /\ report # NoResult

\* The positions in data of the items the loop scores, and among them those
\* whose expected label (lower-cased, as the loop takes it) is l.
ScoredItems == {k \in 1..Len(data) : item_outcome(data[k]) = "scored"}
SkippedItems == {k \in 1..Len(data) : item_outcome(data[k]) = "continue"}
ScoredWithExpected(l) ==
  {k \in ScoredItems : lower(data[k].label.v) = label_chars[l]}

\* C8: when analyze_dataset returns its report, for each label L the row L
\* of the confusion matrix sums to the number of scored items whose expected
\* label is L.
C8_ConfusionRowSums ==
  Reported =>
    \A l \in Range(labels) :
      actual_sum_of(report.confusion_matrix, l) = Cardinality(ScoredWithExpected(l))

\* A report over a corpus with a misclassified item, an item whose label is
\* outside the matrix and a row that counts two items.
C8_Witness ==
  /\ Reported
  /\ \E l \in Range(labels) : Cardinality(ScoredWithExpected(l)) >= 2
  /\ \E l, m \in Range(labels) : l # m /\ report.confusion_matrix[l][m] > 0
  /\ Len(report.results_breakdown) = 3

\* C9: analyze_dataset skips the pairs with an empty text or an empty
\* expected label, what it skips is not among the scored rows, and the
\* accuracy it reports is correct_predictions divided by the number of pairs
\* it scored.
C9_AccuracyOverScoredPairs ==
  Reported =>
    /\ Len(report.results_breakdown) = Cardinality(ScoredItems)
    /\ Cardinality(ScoredItems) > 0 =>
         report.accuracy =
           round3(Frac(report.correct_predictions, Cardinality(ScoredItems)))

\* C10: the precision, recall and F1 reported for each class lie between 0
\* and 1 (0 and 1000 thousandths), a ratio whose denominator is zero is
\* reported as 0, and computing them raises no ZeroDivisionError.
C10_MetricsBoundedZeroSafe ==
  /\ error # "ZeroDivisionError"
  /\ Reported =>
       \A c \in Range(labels) :
         LET m == report.class_metrics[c]
             conf == report.confusion_matrix
         IN  /\ m.precision \in 0..1000
             /\ m.recall \in 0..1000
             /\ m.f1_score \in 0..1000
             /\ predicted_sum_of(conf, c) = 0 => m.precision = 0
             /\ actual_sum_of(conf, c) = 0 => m.recall = 0
             /\ (m.precision = 0 /\ m.recall = 0) => m.f1_score = 0

\* A report in which one class was never predicted, one never expected,
\* and one has a precision strictly between 0 and 1.
C10_Witness ==
  /\ Reported
  /\ \E c \in Range(labels) : predicted_sum_of(report.confusion_matrix, c) = 0
  /\ \E c \in Range(labels) : actual_sum_of(report.confusion_matrix, c) = 0
  /\ \E c \in Range(labels) :
       /\ report.class_metrics[c].precision \in 1..999
       /\ report.class_metrics[c].f1_score \in 1..999

\* C11: in the EntityBag extract_entities returns, every one of the eight
\* categories is strictly ascending in the order of sorted(), hence without
\* a duplicate value.
C11_CategoriesSortedDeduplicated ==
  (pc = "done" /\ entities # NoResult) =>
    \A c \in EntityCategories :
      \A i, j \in 1..Len(entities[c]) :
        i < j => StrLess(entities[c][i], entities[c][j])

\* A returned bag, from a text that is not blank, with two categories of two
\* or more values each.
C11_Witness ==
  /\ pc = "done" /\ entities # NoResult
  /\ strip(text) # <<>>
  /\ Cardinality({c \in EntityCategories : Len(entities[c]) >= 2}) >= 2

\* The tiers of event_importance in their order low < high < critical.
TierRank == [low |-> 0, high |-> 1, critical |-> 2]

\* C12: within one detect_events pass, no step of the scan moves
\* event_importance to a lower tier (low < high < critical) and no step
\* decreases priority_score.
C12_ScanMonotone ==
  [][/\ TierRank[detected_events'.event_importance]
          >= TierRank[detected_events.event_importance]
     /\ detected_events'.priority_score >= detected_events.priority_score]_vars

\* A finished pass that went through both escalations: a Saudi-specific
\* match (high) followed by an Islamic-alert match (critical).
C12_Witness ==
  /\ pc = "done" /\ detected_events # NoResult
  /\ detected_events.saudi_specific # <<>>
  /\ detected_events.islamic_alerts # <<>>
  /\ detected_events.event_importance = "critical"
  /\ detected_events.priority_score > 10

\* C13: for every input text, the confidence predict_sentiment returns lies
\* in [0,1], before rounding (as a ratio) and as reported (in thousandths).
C13_ConfidenceInUnitInterval ==
  (pc = "done" /\ sentiment # NoResult) =>
    /\ sentiment.confidence_score.den > 0
    /\ 0 <= sentiment.confidence_score.num
    /\ sentiment.confidence_score.num <= sentiment.confidence_score.den
    /\ sentiment.confidence \in 0..1000

\* A prediction over a text with matches in two buckets, so that the
\* confidence is a proper ratio and the total score exceeds 1.
C13_Witness ==
  /\ pc = "done" /\ sentiment # NoResult
  /\ sentiment.confidence \in 1..999
  /\ sentiment.scores["positive"] > 10
  /\ sentiment.scores["negative"] > 0

----------------------------------------------------------------------------
(* The three components called on one value, which may not be a str (a     *)
(* missing or null title reaches them as None).                            *)

\* The event types of the categories of a table that match, in table order.
matching_event_types(table, t, generic) ==
  LET hits == SelectSeq(table,
                LAMBDA category : IF generic THEN generic_category_matches(category, t)
                                  ELSE category_matches(category, t))
  IN  [k \in 1..Len(hits) |-> hits[k].event_type]

\* SaudiEventDetector.detect_events(text) for a str, the three loops run to
\* their end.
detect_events(t) ==
  LET generic == matching_event_types(generic_events, t, TRUE)
      saudi   == matching_event_types(saudi_events, t, FALSE)
      alerts  == matching_event_types(islamic_alerts, t, FALSE)
  IN  [generic |-> generic,
       saudi_specific |-> saudi,
       islamic_alerts |-> alerts,
       event_importance |->
         IF alerts # <<>> THEN islamic_alert_importance
         ELSE IF saudi # <<>> THEN "high" ELSE "low",
       priority_score |->
         SeqSum([k \in 1..Len(saudi) |-> event_priority_get(saudi[k])])
           + SeqSum([k \in 1..Len(alerts) |-> islamic_alert_bonus(alerts[k])])]

\* Texts and other values the components are called with.
CallVocabulary ==
  {W_nmw, W_khsair, W_shrkh, P_sukuk_default, P_repo_rate, P_Zakat,
   Q_Saudi_Aramco, Q_SAMA}

MaxCallPhrases == 2

ComponentArguments ==
  {JStr(join(ps)) : ps \in WordSeqs(CallVocabulary, MaxCallPhrases)}
    \cup {JStr(<<32>>), JNone, JNumber}

InitCalls ==
  /\ argument \in ComponentArguments
  /\ pc = "start"
  /\ error = ""
  /\ text = <<>> /\ sentiment = NoResult /\ negation_result = NoResult
  /\ detected_events = NoResult /\ event_index = 0
  /\ doc_ents = <<>> /\ entities = NoResult /\ first_run = NoResult
  /\ dataset_file = NoResult /\ data = <<>> /\ item_index = 0
  /\ results = <<>> /\ correct_predictions = 0 /\ confusion = NoResult
  /\ report = NoResult
  /\ ApiIdle /\ PipelineIdle

\* predict_sentiment(argument): preprocess_text starts with text.split().
CallPredictSentiment ==
  /\ pc = "start"
  /\ IF argument.t = "str"
     THEN /\ sentiment' = predict_sentiment(argument.v)
          /\ pc' = "done" /\ error' = error
     ELSE /\ pc' = "raised" /\ error' = "AttributeError"
          /\ sentiment' = sentiment
  /\ UNCHANGED <<text, argument, negation_result, eventVars, entityVars, dataset_file, data,
                 item_index, results, correct_predictions, confusion, report,
                 apiVars, pipelineVars>>

\* detect_events(argument): the first statement is text.lower().
CallDetectEvents ==
  /\ pc = "start"
  /\ IF argument.t = "str"
     THEN /\ detected_events' = detect_events(argument.v)
          /\ pc' = "done" /\ error' = error
     ELSE /\ pc' = "raised" /\ error' = "AttributeError"
          /\ detected_events' = detected_events
  /\ UNCHANGED <<text, argument, event_index, sentimentVars, entityVars,
                 dataset_file, data, item_index, results, correct_predictions,
                 confusion, report, apiVars, pipelineVars>>

\* extract_entities(argument): `not isinstance(text, str) or not text.strip()`
\* returns the empty bag.
CallExtractEntities ==
  /\ pc = "start"
  /\ IF argument.t = "str"
     THEN \E company_order \in IterationOrders(saudi_company_keywords_set, argument.v),
             regulator_order \in IterationOrders(saudi_regulators, argument.v),
             vision_order \in IterationOrders(vision_2030_keywords, argument.v) :
            entities' = extract_entities(argument.v, doc_ents, company_order,
                                         regulator_order, vision_order)
     ELSE entities' = empty_entities
  /\ pc' = "done"
  /\ UNCHANGED <<text, argument, doc_ents, first_run, sentimentVars, eventVars,
                 batchVars, apiVars, pipelineVars>>

NextCalls == CallPredictSentiment \/ CallDetectEvents \/ CallExtractEntities

SpecCalls == InitCalls /\ [][NextCalls]_vars

\* C14: called with a value that is not a str, each component returns its
\* empty default and raises nothing: predict_sentiment neutral with
\* confidence 0.5, extract_entities eight empty categories, detect_events
\* empty lists with importance 'low' and priority_score 0.
C14_NonStringGivesEmptyDefault ==
  (pc # "start" /\ argument # NoResult /\ argument.t # "str") =>
    /\ pc = "done" /\ error = ""
    /\ sentiment # NoResult =>
         sentiment.label = "neutral" /\ sentiment.confidence = 500
    /\ entities # NoResult => entities = empty_entities
    /\ detected_events # NoResult => detected_events = new_detected_events

\* A bad record: not an object, or its text or its label is null or not a
\* string.  A well-formed one: an object with a text and a label that are
\* non-empty strings.
IsBadRecord(item) ==
  \/ ~item.is_dict
  \/ item.text.t \in {"none", "number"}
  \/ item.label.t \in {"none", "number"}
IsWellFormedRecord(item) ==
  /\ item.is_dict
  /\ item.text.t = "str" /\ item.text.v # <<>>
  /\ item.label.t = "str" /\ item.label.v # <<>>

\* C15: in a batch run a bad record does not abort the run: analyze_dataset
\* never ends in an exception, and the report it returns has a row for
\* every well-formed record of the corpus, before and after the bad one.
C15_BadRecordDoesNotAbort ==
  /\ pc # "raised"
  /\ (Reported /\ \E k \in 1..Len(data) : IsBadRecord(data[k])) =>
       Len(report.results_breakdown) =
         Cardinality({k \in 1..Len(data) : IsWellFormedRecord(data[k])})

\* C16: when the corpus file is missing or does not hold valid JSON,
\* analyze_dataset returns the empty report and raises nothing.
C16_UnreadableCorpusGivesEmptyReport ==
  (pc # "start" /\ dataset_file # NoResult /\ dataset_file.status # "ok") =>
    /\ pc = "done"
    /\ report = EmptyDict
    /\ error = ""

----------------------------------------------------------------------------
(* The consumer: GET /saudi/sentiment/{company_name} of the API, answering *)
(* from the articles the entity stage has written.                         *)

ENTITY_MAPPINGS ==
  <<
    [keyword |-> <<97, 114, 97, 109, 99, 111>>,
     standard_name |-> <<83, 97, 117, 100, 105, 32, 65, 114, 97, 109, 99, 111>>],  \* "aramco": "Saudi Aramco"
    [keyword |-> <<115, 97, 117, 100, 105, 32, 97, 114, 97, 109, 99, 111>>,
     standard_name |-> <<83, 97, 117, 100, 105, 32, 65, 114, 97, 109, 99, 111>>],  \* "saudi aramco": "Saudi Aramco"
    [keyword |-> <<97, 108, 32, 114, 97, 106, 104, 105>>,
     standard_name |-> <<65, 108, 32, 82, 97, 106, 104, 105, 32, 66, 97, 110, 107>>],  \* "al rajhi": "Al Rajhi Bank"
    [keyword |-> <<97, 108, 32, 114, 97, 106, 104, 105, 32, 98, 97, 110, 107>>,
     standard_name |-> <<65, 108, 32, 82, 97, 106, 104, 105, 32, 66, 97, 110, 107>>],  \* "al rajhi bank": "Al Rajhi Bank"
    [keyword |-> <<97, 108, 114, 97, 106, 104, 105>>,
     standard_name |-> <<65, 108, 32, 82, 97, 106, 104, 105, 32, 66, 97, 110, 107>>],  \* "alrajhi": "Al Rajhi Bank"
    [keyword |-> <<114, 97, 106, 104, 105>>,
     standard_name |-> <<65, 108, 32, 82, 97, 106, 104, 105, 32, 66, 97, 110, 107>>],  \* "rajhi": "Al Rajhi Bank"
    [keyword |-> <<115, 97, 98, 105, 99>>,
     standard_name |-> <<83, 65, 66, 73, 67>>],  \* "sabic": "SABIC"
    [keyword |-> <<115, 116, 99>>,
     standard_name |-> <<83, 84, 67>>],  \* "stc": "STC"
    [keyword |-> <<115, 97, 117, 100, 105, 32, 116, 101, 108, 101, 99, 111, 109>>,
     standard_name |-> <<83, 84, 67>>],  \* "saudi telecom": "STC"
    [keyword |-> <<115, 97, 117, 100, 105, 97>>,
     standard_name |-> <<83, 97, 117, 100, 105, 97>>],  \* "saudia": "Saudia"
    [keyword |-> <<115, 97, 117, 100, 105, 32, 97, 105, 114, 108, 105, 110, 101, 115>>,
     standard_name |-> <<83, 97, 117, 100, 105, 97>>],  \* "saudi airlines": "Saudia"
    [keyword |-> <<110, 99, 98>>,
     standard_name |-> <<78, 67, 66>>],  \* "ncb": "NCB"
    [keyword |-> <<110, 97, 116, 105, 111, 110, 97, 108, 32, 99, 111, 109, 109, 101, 114, 99, 105, 97, 108, 32, 98, 97, 110, 107>>,
     standard_name |-> <<78, 67, 66>>],  \* "national commercial bank": "NCB"
    [keyword |-> <<115, 110, 98>>,
     standard_name |-> <<83, 97, 117, 100, 105, 32, 78, 97, 116, 105, 111, 110, 97, 108, 32, 66, 97, 110, 107, 32, 40, 83, 78, 66, 41>>],  \* "snb": "Saudi National Bank (SNB)"
    [keyword |-> <<115, 97, 117, 100, 105, 32, 110, 97, 116, 105, 111, 110, 97, 108, 32, 98, 97, 110, 107>>,
     standard_name |-> <<83, 97, 117, 100, 105, 32, 78, 97, 116, 105, 111, 110, 97, 108, 32, 66, 97, 110, 107, 32, 40, 83, 78, 66, 41>>],  \* "saudi national bank": "Saudi National Bank (SNB)"
    [keyword |-> <<115, 97, 109, 98, 97>>,
     standard_name |-> <<83, 97, 117, 100, 105, 32, 78, 97, 116, 105, 111, 110, 97, 108, 32, 66, 97, 110, 107, 32, 40, 83, 78, 66, 41>>],  \* "samba": "Saudi National Bank (SNB)"
    [keyword |-> <<109, 97, 97, 100, 101, 110>>,
     standard_name |-> <<77, 97, 97, 100, 101, 110>>],  \* "maaden": "Maaden"
    [keyword |-> <<109, 97, 39, 97, 100, 101, 110>>,
     standard_name |-> <<77, 97, 97, 100, 101, 110>>],  \* "ma'aden": "Maaden"
    [keyword |-> <<115, 97, 117, 100, 105, 32, 97, 114, 97, 98, 105, 97, 110, 32, 109, 105, 110, 105, 110, 103>>,
     standard_name |-> <<77, 97, 97, 100, 101, 110>>],  \* "saudi arabian mining": "Maaden"
    [keyword |-> <<97, 108, 109, 97, 114, 97, 105>>,
     standard_name |-> <<65, 108, 109, 97, 114, 97, 105>>],  \* "almarai": "Almarai"
    [keyword |-> <<114, 105, 121, 97, 100, 32, 98, 97, 110, 107>>,
     standard_name |-> <<82, 105, 121, 97, 100, 32, 66, 97, 110, 107>>],  \* "riyad bank": "Riyad Bank"
    [keyword |-> <<97, 108, 105, 110, 109, 97>>,
     standard_name |-> <<65, 108, 105, 110, 109, 97, 32, 66, 97, 110, 107>>],  \* "alinma": "Alinma Bank"
    [keyword |-> <<97, 108, 105, 110, 109, 97, 32, 98, 97, 110, 107>>,
     standard_name |-> <<65, 108, 105, 110, 109, 97, 32, 66, 97, 110, 107>>]  \* "alinma bank": "Alinma Bank"
  >>

\* lower_name in ENTITY_MAPPINGS, and ENTITY_MAPPINGS[lower_name]
in_ENTITY_MAPPINGS(lower_name) ==
  \E k \in 1..Len(ENTITY_MAPPINGS) : ENTITY_MAPPINGS[k].keyword = lower_name
ENTITY_MAPPINGS_get(lower_name) ==
  LET k == CHOOSE j \in 1..Len(ENTITY_MAPPINGS) : ENTITY_MAPPINGS[j].keyword = lower_name
  IN  ENTITY_MAPPINGS[k].standard_name

normalize_entity_name(entity_name) ==
  LET lower_name == strip(lower(entity_name))
  IN  IF in_ENTITY_MAPPINGS(lower_name) THEN ENTITY_MAPPINGS_get(lower_name)
      ELSE entity_name

\* article_with_entities = {**article, 'entities': entities_found}: an
\* article of the sentiment stage with the entities of its title added.
article_with_entities(article_title, sentiment_label, entities_found) ==
  [title |-> article_title, sentiment |-> sentiment_label, entities |-> entities_found]

\* found_articles: the articles whose saudi_specific holds the query
found_articles_of(articles, query) ==
  SelectSeq(articles, LAMBDA article : query \in Range(article.entities["saudi_specific"]))

\* The answer of the endpoint: HTTPException(404) or a SentimentResponse.
sentiment_response(articles, name, query) ==
  IF articles = <<>> \/ found_articles_of(articles, query) = <<>>
  THEN [status_code |-> 404, company |-> name, sentiment |-> ""]
  ELSE [status_code |-> 200, company |-> name,
        sentiment |-> found_articles_of(articles, query)[1].sentiment]

MaxArticles == 2

\* Titles of the bounded article files and names of the bounded requests.
A_NCB == <<78, 67, 66>>                                       \* 'NCB'
A_ncb == <<110, 99, 98>>                                      \* 'ncb'
A_saudia == <<115, 97, 117, 100, 105, 97>>                    \* 'saudia'
A_Aramco_padded == <<32, 65, 114, 97, 109, 99, 111, 32>>      \* ' Aramco '
A_snb == <<115, 110, 98>>                                     \* 'snb'
A_samba == <<115, 97, 109, 98, 97>>                           \* 'samba'
A_rajhi == <<114, 97, 106, 104, 105>>                         \* 'rajhi'
A_unlisted == <<65, 67, 77, 69>>                              \* 'ACME', in no table

ArticleTitles == {Q_Saudi_Aramco, Q_SNB, Q_Alinma_Bank, A_NCB, Q_talks}
RequestNames ==
  {A_Aramco_padded, Q_Saudi_Aramco, A_snb, A_samba, Q_Alinma_Bank, A_rajhi,
   A_ncb, A_NCB, A_saudia, A_unlisted}

InitApi ==
  /\ processed_articles = <<>> /\ company_name = <<>>
  /\ normalized_query = <<>> /\ response = NoResult
  /\ pc = "start"
  /\ error = "" /\ argument = NoResult
  /\ text = <<>> /\ sentiment = NoResult /\ negation_result = NoResult
  /\ detected_events = NoResult /\ event_index = 0
  /\ doc_ents = <<>> /\ entities = NoResult /\ first_run = NoResult
  /\ dataset_file = NoResult /\ data = <<>> /\ item_index = 0
  /\ results = <<>> /\ correct_predictions = 0 /\ confusion = NoResult
  /\ report = NoResult
  /\ PipelineIdle

\* The entity stage adds one article to the file the API reads: the title's
\* entities next to the label the sentiment stage gave.
ProcessArticle ==
  /\ pc = "start"
  /\ Len(processed_articles) < MaxArticles
  /\ \E article_title \in ArticleTitles, sentiment_label \in Range(SentimentLabels) :
       \E company_order \in IterationOrders(saudi_company_keywords_set, article_title),
          regulator_order \in IterationOrders(saudi_regulators, article_title),
          vision_order \in IterationOrders(vision_2030_keywords, article_title) :
         processed_articles' =
           Append(processed_articles,
                  article_with_entities(article_title, sentiment_label,
                    extract_entities(article_title, <<>>, company_order, regulator_order,
                                     vision_order)))
  /\ UNCHANGED <<pc, company_name, normalized_query, response, error, argument,
                 text, sentimentVars, eventVars, entityVars, dataset_file, data,
                 item_index, results, correct_predictions, confusion, report,
                 pipelineVars>>

\* get_saudi_company_sentiment(company_name)
GetSaudiCompanySentiment ==
  /\ pc = "start"
  /\ \E name \in RequestNames :
       /\ company_name' = name
       /\ normalized_query' = normalize_entity_name(name)
       /\ response' = sentiment_response(processed_articles, name,
                                         normalize_entity_name(name))
  /\ pc' = "done"
  /\ UNCHANGED <<processed_articles, error, argument, text, sentimentVars,
                 eventVars, entityVars, dataset_file, data, item_index, results,
                 correct_predictions, confusion, report, pipelineVars>>

NextApi == ProcessArticle \/ GetSaudiCompanySentiment

SpecApi == InitApi /\ [][NextApi]_vars

\* C17: the API's name table is in lockstep with the extractor's: whenever
\* a request name is a key of ENTITY_MAPPINGS, the canonical name the API
\* looks for is a canonical name of the extractor's company map, and a key
\* the two tables share maps to the same canonical name in both.
C17_NameTablesInLockstep ==
  (pc = "done" /\ response # NoResult
     /\ in_ENTITY_MAPPINGS(strip(lower(company_name)))) =>
    /\ normalized_query \in StandardNames
    /\ strip(lower(company_name)) \in saudi_company_keywords_set =>
         standard_name_get(strip(lower(company_name))) = normalized_query

\* Where the claim routes a negated term: positive and negative exchanged,
\* neutral left where it is.
NegationSwap(sent) ==
  CASE sent = "positive" -> "negative"
    [] sent = "negative" -> "positive"
    [] sent = "neutral"  -> "neutral"

\* C18: a matched term that is negated is routed by the swap positive to
\* negative and negative to positive, and a negated neutral term still goes
\* to the neutral bucket: its 'NOT <term>' tag is among the matched terms of
\* that bucket.
C18_NegationSwapsPolarityOnly ==
  (pc = "done" /\ sentiment # NoResult) =>
    \A k \in 1..Len(lexicon_entries) :
      LET e  == lexicon_entries[k]
          st == score_entry(e, preprocess_text(text), split(preprocess_text(text)))
      IN  (st.fired /\ HasPrefix(st.tag, NOT_prefix)) =>
            (NOT_prefix \o e.term)
              \in Range(sentiment.matched_terms[NegationSwap(e.sentiment)])

\* The entry left its mark in the result: its term, plain or tagged, is
\* among the matched terms of some bucket.
EntryRecorded(e) ==
  \E c \in Range(SentimentLabels) :
    \E tag \in Range(sentiment.matched_terms[c]) :
      tag \in {e.term, NOT_prefix \o e.term, Islamic_prefix \o e.term}

\* C19: for every lexicon entry and every text, the entry fires exactly when
\* its term occurs as a whole word of the text, term and text both read
\* under the normaliser's character unification; so a term spelled with a
\* character the normaliser rewrites fires on a text containing that word.
C19_FiresIffNormalizedWholeWord ==
  (pc = "done" /\ sentiment # NoResult) =>
    \A k \in 1..Len(lexicon_entries) :
      EntryRecorded(lexicon_entries[k]) <=> OccursNormalized(lexicon_entries[k], text)

\* C20: a step of the Islamic-alert loop in which a category other than
\* sukuk_default matches sets event_importance to 'critical' and strictly
\* increases priority_score (by the category's base weight).
C20_OtherIslamicAlertAddsWeight ==
  [][(/\ pc = "islamic"
      /\ islamic_alerts[event_index].event_type # "sukuk_default"
      /\ category_matches(islamic_alerts[event_index], text))
       => /\ detected_events'.event_importance = "critical"
          /\ detected_events'.priority_score > detected_events.priority_score]_vars

----------------------------------------------------------------------------
(* Saudi-specific categories of detect_events.                             *)

\* The keywords of a Saudi-specific category that occur in the text, as it
\* is or lower-cased.
KeywordsPresent(category, t) ==
  {k \in 1..Len(category.keywords) :
     Contains(lower(t), category.keywords[k]) \/ Contains(t, category.keywords[k])}

MatchedSaudiIndices(t) ==
  {k \in 1..Len(saudi_events) : KeywordsPresent(saudi_events[k], t) # {}}

\* The static priority weight of a category: its entry of the priority
\* table, 1 when it has none.
StaticWeight(event_type) ==
  IF event_type \in DOMAIN event_priority THEN event_priority[event_type] ELSE 1

\* What the Islamic-alert loop has added to priority_score.
IslamicShare(alerts) ==
  IF \E k \in 1..Len(alerts) : alerts[k] = "sukuk_default" THEN 10 ELSE 0

\* C21: every Saudi-specific category with a keyword in the text is recorded
\* exactly once in saudi_specific, the importance is at least 'high', and
\* priority_score is the sum of the static weights (1 for a category outside
\* the priority table) of the matching categories, once per category however
\* many of its keywords occur, plus the share of the Islamic-alert loop; a
\* category with no keyword in the text is not recorded.
C21_SaudiCategoryOnceStaticWeight ==
  (pc = "done" /\ detected_events # NoResult) =>
    /\ \A k \in 1..Len(saudi_events) :
         Occurrences(detected_events.saudi_specific, saudi_events[k].event_type)
           = IF k \in MatchedSaudiIndices(text) THEN 1 ELSE 0
    /\ MatchedSaudiIndices(text) # {} =>
         TierRank[detected_events.event_importance] >= TierRank["high"]
    /\ detected_events.priority_score =
         SeqSum([k \in 1..Len(saudi_events) |->
                   IF k \in MatchedSaudiIndices(text)
                     THEN StaticWeight(saudi_events[k].event_type) ELSE 0])
         + IslamicShare(detected_events.islamic_alerts)

\* A text with two keywords of one weighted category and a keyword of a
\* category outside the priority table.
C21_Witness ==
  /\ pc = "done" /\ detected_events # NoResult
  /\ \E k \in MatchedSaudiIndices(text) :
       /\ Cardinality(KeywordsPresent(saudi_events[k], text)) >= 2
       /\ saudi_events[k].event_type \in DOMAIN event_priority
  /\ \E k \in MatchedSaudiIndices(text) :
       saudi_events[k].event_type \notin DOMAIN event_priority
  /\ detected_events.event_importance = "high"

----------------------------------------------------------------------------
(* The label and the confidence of predict_sentiment.                      *)

TotalScore(scores) == scores["positive"] + scores["negative"] + scores["neutral"]

\* The float kept in scores[c] of a returned dict.
ScoreOf(result, c) == Dbl(result.scores[c], result.score_errors[c])

\* The position of a label in the order positive, negative, neutral.
LabelPosition(l) == CHOOSE k \in 1..Len(SentimentLabels) : SentimentLabels[k] = l

\* C22: when the total score is not zero, the label carries the maximum
\* score, every category before it in the order positive, negative, neutral
\* has a strictly smaller score (the first of tied categories wins), and the
\* confidence is scores[label] / total.
C22_LabelIsFirstMaximum ==
  (pc = "done" /\ sentiment # NoResult /\ TotalScore(sentiment.scores) # 0) =>
    /\ \A c \in Range(SentimentLabels) :
         ~fl_less(ScoreOf(sentiment, sentiment.label), ScoreOf(sentiment, c))
    /\ \A c \in Range(SentimentLabels) :
         LabelPosition(c) < LabelPosition(sentiment.label) =>
           fl_less(ScoreOf(sentiment, c), ScoreOf(sentiment, sentiment.label))
    /\ sentiment.confidence_score.den # 0
    /\ sentiment.confidence_score.num * TotalScore(sentiment.scores)
         = sentiment.scores[sentiment.label] * sentiment.confidence_score.den

\* A tie of negative and neutral above positive, resolved to negative.
C22_Witness ==
  /\ pc = "done" /\ sentiment # NoResult
  /\ ScoreOf(sentiment, "negative") = ScoreOf(sentiment, "neutral")
  /\ sentiment.scores["negative"] > sentiment.scores["positive"]
  /\ sentiment.label = "negative"
  /\ 2 * sentiment.confidence_score.num = sentiment.confidence_score.den

\* C23: the tier is 'high' iff the returned confidence is above 0.75,
\* 'medium' iff it is above 0.55 and at most 0.75, and 'low' otherwise
\* (confidence in thousandths): a returned confidence of exactly 0.75 comes
\* with 'medium', and the zero-match confidence 0.5 with 'low'.
C23_TierByStrictThresholds ==
  (pc = "done" /\ sentiment # NoResult) =>
    /\ sentiment.confidence_level = "high" <=> sentiment.confidence > 750
    /\ sentiment.confidence_level = "medium" <=>
         (sentiment.confidence > 550 /\ sentiment.confidence <= 750)
    /\ sentiment.confidence_level = "low" <=> sentiment.confidence <= 550

----------------------------------------------------------------------------
(* Intensifiers.                                                           *)

\* The intensifiers of the table that occur in the normalized text.
IntensifiersPresent(t) ==
  {k \in 1..Len(intensifiers) : Contains(preprocess_text(t), intensifiers[k].phrase)}

\* The factor (in tenths) of the first of them in table order, 10 when none.
FirstFactor(t) ==
  IF IntensifiersPresent(t) = {} THEN 10
  ELSE intensifiers[CHOOSE k \in IntensifiersPresent(t) :
                      \A j \in IntensifiersPresent(t) : k <= j].multiplier

\* The base weight of the lexicon entry a matched-terms tag stands for.
BaseWeightOfTag(tag) ==
  LET k == CHOOSE j \in 1..Len(lexicon_entries) :
             tag \in {lexicon_entries[j].term,
                      NOT_prefix \o lexicon_entries[j].term,
                      Islamic_prefix \o lexicon_entries[j].term}
  IN  lexicon_entries[k].weight

----------------------------------------------------------------------------
(* check_negation called on a token list, an index and a window.           *)

MaxTokens == 4
MaxWindow == 4

NegationTokens == {W_lm, W_ghyr, W_nmw}

NegationArguments ==
  {[text_words |-> ws, term_word_index |-> i, window |-> w] :
     ws \in WordSeqs(NegationTokens, MaxTokens), i \in 0..MaxTokens, w \in 0..MaxWindow}

InitNegation ==
  /\ argument \in {a \in NegationArguments : a.term_word_index <= Len(a.text_words)}
  /\ pc = "start"
  /\ text = <<>> /\ sentiment = NoResult /\ negation_result = NoResult
  /\ detected_events = NoResult /\ event_index = 0
  /\ doc_ents = <<>> /\ entities = NoResult /\ first_run = NoResult
  /\ BatchIdle
  /\ ApiIdle /\ PipelineIdle

CheckNegation ==
  /\ pc = "start"
  /\ negation_result' =
       [value |-> check_negation(argument.text_words, argument.term_word_index,
                                 argument.window)]
  /\ pc' = "done"
  /\ UNCHANGED <<text, argument, sentiment, eventVars, entityVars, batchVars, apiVars, pipelineVars>>

NextNegation == CheckNegation

SpecNegation == InitNegation /\ [][NextNegation]_vars

\* The 0-based indices of the tokens that are negation words.
NegationIndices(tokens) ==
  {j \in 0..(Len(tokens) - 1) : \E k \in 1..Len(negation_words) : tokens[j + 1] = negation_words[k]}

\* C25: check_negation(tokens, i, w) is true iff a token at a 0-based index
\* in [max(0, i - w), i - 1] is a negation word; a negation word at index i
\* or later, or more than w tokens before i, does not count, and i = 0
\* gives false.
C25_NegationWindow ==
  (pc = "done" /\ negation_result # NoResult) =>
    /\ negation_result.value =
         (\E j \in NegationIndices(argument.text_words) :
            /\ Max(0, argument.term_word_index - argument.window) <= j
            /\ j <= argument.term_word_index - 1)
    /\ argument.term_word_index = 0 => negation_result.value = FALSE

\* A call that returns false although a negation word stands at index i and
\* another more than w tokens before i.
C25_Witness ==
  /\ pc = "done" /\ negation_result = [value |-> FALSE]
  /\ argument.window >= 1
  /\ argument.term_word_index \in NegationIndices(argument.text_words)
  /\ \E j \in NegationIndices(argument.text_words) :
       j < argument.term_word_index - argument.window

----------------------------------------------------------------------------
(* Accumulation of the scores.                                             *)

FiredIndices(t) == {k \in 1..Len(lexicon_entries) : Fires(lexicon_entries[k], t)}

\* The elements of matched_terms, over all buckets.
AllTags(result) ==
  result.matched_terms["positive"] \o result.matched_terms["negative"]
    \o result.matched_terms["neutral"]

\* How many of the tags stand for entry k.
TagCount(tags, k) ==
  Cardinality({i \in 1..Len(tags) :
                 tags[i] \in {lexicon_entries[k].term,
                              NOT_prefix \o lexicon_entries[k].term,
                              Islamic_prefix \o lexicon_entries[k].term}})

\* C26: after scoring, matched_terms holds exactly one element for every
\* entry that fired and none for the others; scores[c] is the sum of the
\* adjusted weights of the entries recorded in matched_terms[c], all of them
\* (no early exit); hence scores[c] > 0 iff matched_terms[c] is not empty,
\* and the total is 0 iff no entry fired.
C26_ScoresAccumulateAllFired ==
  (pc = "done" /\ sentiment # NoResult) =>
    \A fired \in {FiredIndices(text)}, tags \in {AllTags(sentiment)},
       factor \in {FirstFactor(text)} :
      /\ \A k \in 1..Len(lexicon_entries) :
           TagCount(tags, k) = IF k \in fired THEN 1 ELSE 0
      /\ \A c \in Range(SentimentLabels) :
           /\ sentiment.scores[c] =
                SeqSum([i \in 1..Len(sentiment.matched_terms[c]) |->
                          BaseWeightOfTag(sentiment.matched_terms[c][i]) * factor])
           /\ sentiment.scores[c] > 0 <=> sentiment.matched_terms[c] # <<>>
      /\ TotalScore(sentiment.scores) = 0 <=> fired = {}

\* Two entries accumulated in one bucket while another bucket is filled too.
C26_Witness ==
  /\ pc = "done" /\ sentiment # NoResult
  /\ Len(sentiment.matched_terms["positive"]) >= 2
  /\ sentiment.scores["positive"] > 30
  /\ sentiment.matched_terms["negative"] # <<>>

----------------------------------------------------------------------------
(* Canonical company names and the organizations list.                     *)

\* One name contains the other, letter case ignored.
NearDuplicate(a, b) ==
  Contains(lower(a), lower(b)) \/ Contains(lower(b), lower(a))

\* The organizations the recogniser found: what the list holds when the
\* company loop starts.
RecognisedOrganizations ==
  {strip(doc_ents[k].text) :
     k \in {j \in 1..Len(doc_ents) :
              doc_ents[j].label_ = "ORG" /\ strip(doc_ents[j].text) # <<>>}}

\* C27: after extract_entities, for every canonical name of saudi_specific
\* the organizations list holds the name or an entry that contains it or is
\* contained in it, letter case ignored; and the name was added to the list
\* exactly when no such entry was already there (the entries already there
\* are those of the recogniser: no canonical name contains another).
C27_CanonicalNameOrNearDuplicate ==
  (pc = "done" /\ entities # NoResult) =>
    \A name \in Range(entities.saudi_specific) :
      /\ \E org \in Range(entities.organizations) : NearDuplicate(name, org)
      /\ (name \in Range(entities.organizations) /\ name \notin RecognisedOrganizations)
           <=> ~(\E org \in RecognisedOrganizations : NearDuplicate(name, org))

\* One canonical name added to organizations and another kept out by a
\* shorter entry of the recogniser.
C27_Witness ==
  /\ pc = "done" /\ entities # NoResult
  /\ \E name \in Range(entities.saudi_specific) :
       /\ name \notin Range(entities.organizations)
       /\ \E org \in RecognisedOrganizations : org # name /\ NearDuplicate(name, org)
  /\ \E name \in Range(entities.saudi_specific) :
       /\ name \in Range(entities.organizations)
       /\ name \notin RecognisedOrganizations

----------------------------------------------------------------------------
(* First occurrence of a term and its negation window.                     *)

\* The 0-based index, among the whitespace-separated tokens of s, of the
\* token that holds position p.
TokenIndexAt(s, p) == Len(split(SubSeq(s, 1, p))) - 1

\* A negation word is among the (at most three) tokens before token j.
NegationBeforeToken(tokens, j) ==
  \E i \in Max(0, j - 3)..(j - 1) : tokens[i + 1] \in Range(negation_words)

\* C28: every lexicon entry is recorded at most once per text, however
\* often its term occurs, and an entry that fired is recorded as negated
\* exactly when a negation word is among the three tokens before the token
\* of its first occurrence; a negation before a later occurrence has no
\* effect.
C28_OncePerTextFirstOccurrenceWindow ==
  (pc = "done" /\ sentiment # NoResult) =>
    \A s \in {preprocess_text(text)}, tags \in {AllTags(sentiment)} :
      \A k \in 1..Len(lexicon_entries) :
        /\ TagCount(tags, k) <= 1
        /\ regex_search_word(lexicon_entries[k].term, s) # 0 =>
             ((\E i \in 1..Len(tags) : tags[i] = NOT_prefix \o lexicon_entries[k].term)
                <=> NegationBeforeToken(split(s),
                      TokenIndexAt(s, regex_search_word(lexicon_entries[k].term, s))))

----------------------------------------------------------------------------
(* Counters of analyze_dataset.                                            *)

DiagonalSum(conf) == SeqSum([k \in 1..Len(labels) |-> conf[labels[k]][labels[k]]])

CellSum(conf) == SeqSum([k \in 1..Len(labels) |-> actual_sum_of(conf, labels[k])])

\* The rows of the breakdown whose expected label is a key of the matrix.
RowsInMatrix(rows) ==
  {k \in 1..Len(rows) : \E l \in Range(labels) : rows[k].expected = label_chars[l]}

\* C29: in the report of analyze_dataset, and at every point of its loop,
\* correct_predictions is the sum of the diagonal of the confusion matrix,
\* and the sum of all its cells is at most the number of rows of
\* results_breakdown, with equality iff the expected label of every scored
\* item is one of positive, negative, neutral.
C29_CountersAgree ==
  /\ (pc \in {"loop", "raised"} /\ confusion # NoResult) =>
       /\ correct_predictions = DiagonalSum(confusion)
       /\ CellSum(confusion) <= Len(results)
       /\ CellSum(confusion) = Len(results)
            <=> RowsInMatrix(results) = 1..Len(results)
  /\ Reported =>
       /\ report.correct_predictions = DiagonalSum(report.confusion_matrix)
       /\ CellSum(report.confusion_matrix) <= Len(report.results_breakdown)
       /\ CellSum(report.confusion_matrix) = Len(report.results_breakdown)
            <=> RowsInMatrix(report.results_breakdown)
                  = 1..Len(report.results_breakdown)

\* A report with a correct prediction, a wrong one and a scored item whose
\* expected label is outside the matrix.
C29_Witness ==
  /\ Reported
  /\ report.correct_predictions >= 1
  /\ CellSum(report.confusion_matrix) > DiagonalSum(report.confusion_matrix)
  /\ CellSum(report.confusion_matrix) < Len(report.results_breakdown)

----------------------------------------------------------------------------
(* The batch stages of process_complete_pipeline: entity extraction over   *)
(* the sentiment file, then event detection over the entity file.  An      *)
(* article is a dict, a function from its keys; the lists written by       *)
(* json.dump are read back unchanged by json.load.                         *)

\* {**article, key: value}
dict_with(article, key, value) ==
  [k \in DOMAIN article \cup {key} |-> IF k = key THEN value ELSE article[k]]

\* article.get('title', '')
title_or_empty(article) ==
  IF "title" \in DOMAIN article THEN article.title ELSE JStr(<<>>)

\* Titles and articles of the bounded sentiment files: a title naming a
\* company, one naming an event, one naming neither, a null title, and an
\* article without a title.
PipelineTitles == {JStr(Q_Saudi_Aramco), JStr(P_sukuk_default), JStr(Q_talks), JNone}

SentimentArticles ==
  {[title |-> t, sentiment |-> l] : t \in PipelineTitles, l \in {"positive", "negative"}}
    \cup {[sentiment |-> "neutral"]}

InitPipeline ==
  /\ sentiment_articles \in UNION {[1..n -> SentimentArticles] : n \in 0..MaxArticles}
  /\ event_results = <<>>
  /\ ApiIdle
  /\ pc = "entity_stage"
  /\ error = "" /\ argument = NoResult
  /\ text = <<>> /\ sentiment = NoResult /\ negation_result = NoResult
  /\ detected_events = NoResult /\ event_index = 0
  /\ doc_ents = <<>> /\ entities = NoResult /\ first_run = NoResult
  /\ BatchIdle

\* process_sentiment_results, one iteration of the loop over the articles.
ExtractArticleEntities ==
  /\ pc = "entity_stage"
  /\ Len(processed_articles) < Len(sentiment_articles)
  /\ \E article \in {sentiment_articles[Len(processed_articles) + 1]} :
       \E text_for_entities \in {title_or_empty(article)} :
         IF text_for_entities.t = "str"
         THEN \E company_order \in IterationOrders(saudi_company_keywords_set,
                                                   text_for_entities.v),
                 regulator_order \in IterationOrders(saudi_regulators, text_for_entities.v),
                 vision_order \in IterationOrders(vision_2030_keywords, text_for_entities.v) :
                processed_articles' =
                  Append(processed_articles,
                         dict_with(article, "entities",
                                   extract_entities(text_for_entities.v, <<>>, company_order,
                                                    regulator_order, vision_order)))
         ELSE processed_articles' =
                Append(processed_articles, dict_with(article, "entities", empty_entities))
  /\ UNCHANGED <<pc, company_name, normalized_query, response, error, argument,
                 text, sentimentVars, eventVars, entityVars, dataset_file, data,
                 item_index, results, correct_predictions, confusion, report,
                 pipelineVars>>

\* process_sentiment_results returns; run_entity_extraction saves the
\* results and run_event_detection opens the file.  save_results returns
\* None for an empty list, and open(None) raises TypeError.
SaveEntityResults ==
  /\ pc = "entity_stage"
  /\ Len(processed_articles) = Len(sentiment_articles)
  /\ IF processed_articles = <<>>
     THEN pc' = "raised" /\ error' = "TypeError"
     ELSE pc' = "event_stage" /\ error' = error
  /\ UNCHANGED <<apiVars, pipelineVars, argument, text, sentimentVars, eventVars,
                 entityVars, dataset_file, data, item_index, results,
                 correct_predictions, confusion, report>>

\* process_entity_results, one iteration of the loop over the articles:
\* article['title'] raises KeyError without the key, detect_events starts
\* with text.lower().
DetectArticleEvents ==
  /\ pc = "event_stage"
  /\ Len(event_results) < Len(processed_articles)
  /\ \E article \in {processed_articles[Len(event_results) + 1]} :
       IF "title" \notin DOMAIN article
       THEN pc' = "raised" /\ error' = "KeyError" /\ event_results' = event_results
       ELSE IF article.title.t # "str"
       THEN pc' = "raised" /\ error' = "AttributeError" /\ event_results' = event_results
       ELSE /\ event_results' =
                 Append(event_results,
                        dict_with(article, "events", detect_events(article.title.v)))
            /\ pc' = pc /\ error' = error
  /\ UNCHANGED <<apiVars, sentiment_articles, argument, text, sentimentVars, eventVars,
                 entityVars, dataset_file, data, item_index, results,
                 correct_predictions, confusion, report>>

\* process_entity_results returns results.
ReturnEventResults ==
  /\ pc = "event_stage"
  /\ Len(event_results) = Len(processed_articles)
  /\ pc' = "done"
  /\ UNCHANGED <<apiVars, pipelineVars, error, argument, text, sentimentVars, eventVars,
                 entityVars, dataset_file, data, item_index, results,
                 correct_predictions, confusion, report>>

NextPipeline ==
  \/ ExtractArticleEntities
  \/ SaveEntityResults
  \/ DetectArticleEvents
  \/ ReturnEventResults

SpecPipeline == InitPipeline /\ [][NextPipeline]_vars

\* The output record is the input record with exactly one key added.
AddsOnly(output, input, key) ==
  /\ DOMAIN output = DOMAIN input \cup {key}
  /\ key \notin DOMAIN input
  /\ \A k \in DOMAIN input : output[k] = input[k]

=============================================================================
